---- MODULE Spec2Model ----
(***************************************************************************)
(* Lexer and recursive-descent parser of the shaynefro compiler            *)
(* (src/lexer.c, src/parser.c).  A source text is a sequence of one-byte   *)
(* strings; a pointer into the source is a 1-based index, and the index    *)
(* Len(src)+1 is the terminating NUL byte.                                 *)
(***************************************************************************)
EXTENDS Integers, Sequences, FiniteSets, TLC

VARIABLES source, pc, lexer, op, tok, peeked, tokens, parser, program, interned,
          codegen, success, calls

vars ==
  <<source, pc, lexer, op, tok, peeked, tokens, parser, program, interned, codegen, success,
    calls>>

(***************************************************************************)
(* Bytes and <ctype.h> classes                                             *)
(***************************************************************************)
NUL == "NUL"
NL  == "\n"
TAB == "\t"
CR  == "\r"
BSL == "\\"
DQ  == "\""
SQ  == "'"

Lower == {"a","b","c","d","e","f","g","h","i","j","k","l","m",
          "n","o","p","q","r","s","t","u","v","w","x","y","z"}
Upper == {"A","B","C","D","E","F","G","H","I","J","K","L","M",
          "N","O","P","Q","R","S","T","U","V","W","X","Y","Z"}
Digit == {"0","1","2","3","4","5","6","7","8","9"}

isalpha(c)  == c \in Lower \cup Upper
isdigit(c)  == c \in Digit
isalnum(c)  == isalpha(c) \/ isdigit(c)
isxdigit(c) == c \in Digit \cup {"a","b","c","d","e","f","A","B","C","D","E","F"}

\* value of a digit byte in bases up to 16
DigitVal(c) ==
  CASE c = "0" -> 0 [] c = "1" -> 1 [] c = "2" -> 2 [] c = "3" -> 3
    [] c = "4" -> 4 [] c = "5" -> 5 [] c = "6" -> 6 [] c = "7" -> 7
    [] c = "8" -> 8 [] c = "9" -> 9
    [] c \in {"a","A"} -> 10 [] c \in {"b","B"} -> 11 [] c \in {"c","C"} -> 12
    [] c \in {"d","D"} -> 13 [] c \in {"e","E"} -> 14 [] c \in {"f","F"} -> 15
    [] OTHER -> 99

CharAt(src, i) == IF i >= 1 /\ i <= Len(src) THEN src[i] ELSE NUL

\* a local variable: Bind(e, LAMBDA x : body) is body with x holding the
\* value of e, which is computed once, before body
Bind(v, K(_)) == CHOOSE y \in {K(x) : x \in {v}} : TRUE

(***************************************************************************)
(* <stdlib.h> conversions.  Both call sites pass a pointer to a decimal    *)
(* digit, so leading white space and a sign never occur.  The conversion   *)
(* reads the source from that pointer on: it is not bounded by the token.  *)
(***************************************************************************)
RECURSIVE AccDigits(_, _, _, _)
AccDigits(src, i, base, acc) ==
  IF isxdigit(CharAt(src, i)) /\ DigitVal(CharAt(src, i)) < base
  THEN AccDigits(src, i + 1, base, acc * base + DigitVal(CharAt(src, i)))
  ELSE acc

\* strtoll(src + i, &end, base): the optional 0x/0X prefix is taken for base
\* 16 only, and only when a hex digit follows it
strtoll(src, i, base) ==
  IF base = 16 /\ CharAt(src, i) = "0" /\ CharAt(src, i + 1) \in {"x", "X"}
     /\ isxdigit(CharAt(src, i + 2))
  THEN AccDigits(src, i + 2, 16, 0)
  ELSE AccDigits(src, i, base, 0)

RECURSIVE SkipDigits(_, _)
SkipDigits(src, i) == IF isdigit(CharAt(src, i)) THEN SkipDigits(src, i + 1) ELSE i

RECURSIVE Normalise(_, _)
Normalise(m, e) ==
  IF m = 0 THEN [mant |-> 0, exp |-> 0]
  ELSE IF m % 10 = 0 THEN Normalise(m \div 10, e + 1)
  ELSE [mant |-> m, exp |-> e]

\* strtod(src + i, &end): the value mant * 10^exp of the longest prefix
\* digits [. digits] [(e|E) [+|-] digits]; an exponent needs a digit
strtod(src, i) ==
  Bind(SkipDigits(src, i), LAMBDA intEnd :
  Bind(CharAt(src, intEnd) = ".", LAMBDA hasFrac :
  Bind(IF hasFrac THEN SkipDigits(src, intEnd + 1) ELSE intEnd, LAMBDA fracEnd :
  Bind(IF CharAt(src, fracEnd + 1) \in {"+", "-"} THEN fracEnd + 2 ELSE fracEnd + 1,
       LAMBDA expAt :
  Bind(CharAt(src, fracEnd) \in {"e", "E"} /\ isdigit(CharAt(src, expAt)), LAMBDA hasExp :
  Bind(IF hasExp THEN AccDigits(src, expAt, 10, 0) ELSE 0, LAMBDA expAbs :
    Normalise(IF hasFrac
              THEN AccDigits(src, intEnd + 1, 10, AccDigits(src, i, 10, 0))
              ELSE AccDigits(src, i, 10, 0),
              (IF hasExp /\ CharAt(src, fracEnd + 1) = "-" THEN 0 - expAbs ELSE expAbs)
                - (IF hasFrac THEN fracEnd - (intEnd + 1) ELSE 0))))))))

(***************************************************************************)
(* Tokens (src/token.h).  The value union is assigned for INTEGER and      *)
(* FLOAT tokens only; no code reads it for the other kinds.                *)
(***************************************************************************)
NoValue == <<>>

Token(type, start, length, line, column, value) ==
  [type |-> type, start |-> start, length |-> length,
   line |-> line, column |-> column, value |-> value]

(***************************************************************************)
(* Lexer (src/lexer.c)                                                     *)
(***************************************************************************)

\* keyword table filled by init_keywords
keywords ==
  << [keyword |-> <<"i", "n", "t">>, token_type |-> "TOKEN_INT"],
     [keyword |-> <<"f", "l", "o", "a", "t">>, token_type |-> "TOKEN_FLOAT_KW"],
     [keyword |-> <<"s", "t", "r", "i", "n", "g">>, token_type |-> "TOKEN_STRING_KW"],
     [keyword |-> <<"b", "o", "o", "l">>, token_type |-> "TOKEN_BOOL_KW"],
     [keyword |-> <<"c", "h", "a", "r">>, token_type |-> "TOKEN_CHAR_KW"],
     [keyword |-> <<"v", "o", "i", "d">>, token_type |-> "TOKEN_VOID_KW"],
     [keyword |-> <<"i", "f">>, token_type |-> "TOKEN_IF"],
     [keyword |-> <<"e", "l", "s", "e">>, token_type |-> "TOKEN_ELSE"],
     [keyword |-> <<"w", "h", "i", "l", "e">>, token_type |-> "TOKEN_WHILE"],
     [keyword |-> <<"f", "o", "r">>, token_type |-> "TOKEN_FOR"],
     [keyword |-> <<"d", "o">>, token_type |-> "TOKEN_DO"],
     [keyword |-> <<"s", "w", "i", "t", "c", "h">>, token_type |-> "TOKEN_SWITCH"],
     [keyword |-> <<"c", "a", "s", "e">>, token_type |-> "TOKEN_CASE"],
     [keyword |-> <<"d", "e", "f", "a", "u", "l", "t">>, token_type |-> "TOKEN_DEFAULT"],
     [keyword |-> <<"b", "r", "e", "a", "k">>, token_type |-> "TOKEN_BREAK"],
     [keyword |-> <<"c", "o", "n", "t", "i", "n", "u", "e">>, token_type |-> "TOKEN_CONTINUE"],
     [keyword |-> <<"r", "e", "t", "u", "r", "n">>, token_type |-> "TOKEN_RETURN"],
     [keyword |-> <<"f", "u", "n", "c", "t", "i", "o", "n">>, token_type |-> "TOKEN_FUNCTION"],
     [keyword |-> <<"v", "a", "r">>, token_type |-> "TOKEN_VAR"],
     [keyword |-> <<"c", "o", "n", "s", "t">>, token_type |-> "TOKEN_CONST"],
     [keyword |-> <<"c", "l", "a", "s", "s">>, token_type |-> "TOKEN_CLASS"],
     [keyword |-> <<"s", "t", "r", "u", "c", "t">>, token_type |-> "TOKEN_STRUCT"],
     [keyword |-> <<"e", "n", "u", "m">>, token_type |-> "TOKEN_ENUM"],
     [keyword |-> <<"i", "n", "t", "e", "r", "f", "a", "c", "e">>, token_type |-> "TOKEN_INTERFACE"],
     [keyword |-> <<"i", "m", "p", "l", "e", "m", "e", "n", "t", "s">>, token_type |-> "TOKEN_IMPLEMENTS"],
     [keyword |-> <<"e", "x", "t", "e", "n", "d", "s">>, token_type |-> "TOKEN_EXTENDS"],
     [keyword |-> <<"p", "u", "b", "l", "i", "c">>, token_type |-> "TOKEN_PUBLIC"],
     [keyword |-> <<"p", "r", "i", "v", "a", "t", "e">>, token_type |-> "TOKEN_PRIVATE"],
     [keyword |-> <<"p", "r", "o", "t", "e", "c", "t", "e", "d">>, token_type |-> "TOKEN_PROTECTED"],
     [keyword |-> <<"s", "t", "a", "t", "i", "c">>, token_type |-> "TOKEN_STATIC"],
     [keyword |-> <<"f", "i", "n", "a", "l">>, token_type |-> "TOKEN_FINAL"],
     [keyword |-> <<"a", "b", "s", "t", "r", "a", "c", "t">>, token_type |-> "TOKEN_ABSTRACT"],
     [keyword |-> <<"v", "i", "r", "t", "u", "a", "l">>, token_type |-> "TOKEN_VIRTUAL"],
     [keyword |-> <<"o", "v", "e", "r", "r", "i", "d", "e">>, token_type |-> "TOKEN_OVERRIDE"],
     [keyword |-> <<"t", "r", "y">>, token_type |-> "TOKEN_TRY"],
     [keyword |-> <<"c", "a", "t", "c", "h">>, token_type |-> "TOKEN_CATCH"],
     [keyword |-> <<"f", "i", "n", "a", "l", "l", "y">>, token_type |-> "TOKEN_FINALLY"],
     [keyword |-> <<"t", "h", "r", "o", "w">>, token_type |-> "TOKEN_THROW"],
     [keyword |-> <<"i", "m", "p", "o", "r", "t">>, token_type |-> "TOKEN_IMPORT"],
     [keyword |-> <<"e", "x", "p", "o", "r", "t">>, token_type |-> "TOKEN_EXPORT"],
     [keyword |-> <<"m", "o", "d", "u", "l", "e">>, token_type |-> "TOKEN_MODULE"],
     [keyword |-> <<"n", "a", "m", "e", "s", "p", "a", "c", "e">>, token_type |-> "TOKEN_NAMESPACE"],
     [keyword |-> <<"t", "r", "u", "e">>, token_type |-> "TOKEN_TRUE"],
     [keyword |-> <<"f", "a", "l", "s", "e">>, token_type |-> "TOKEN_FALSE"],
     [keyword |-> <<"n", "u", "l", "l">>, token_type |-> "TOKEN_NULL"],
     [keyword |-> <<"u", "n", "d", "e", "f", "i", "n", "e", "d">>, token_type |-> "TOKEN_UNDEFINED"] >>

keyword_count == Len(keywords)

\* lexer->string_pool_size
string_pool_size == 8192

\* the Lexer fields that lexer_create initialises and the scanner and
\* lexer_intern_string use; string_pool holds the bytes written so far, the
\* byte at offset k of the pool being string_pool[k + 1]
lexer_create ==
  [current |-> 1, start |-> 1, line |-> 1, column |-> 1,
   has_error |-> FALSE, error_message |-> "", tokens_processed |-> 0,
   string_pool |-> <<>>, string_pool_used |-> 0]

is_at_end(src, L) == L.current > Len(src)

peek(src, L) == CharAt(src, L.current)

peek_next(src, L) == IF is_at_end(src, L) THEN NUL ELSE CharAt(src, L.current + 1)

lexer_advance(src, L) ==
  IF is_at_end(src, L) THEN L
  ELSE IF src[L.current] = NL
       THEN [L EXCEPT !.line = @ + 1, !.column = 1, !.current = @ + 1]
       ELSE [L EXCEPT !.column = @ + 1, !.current = @ + 1]

lexer_match(src, L, expected) ==
  IF is_at_end(src, L) \/ src[L.current] # expected
  THEN [ok |-> FALSE, lex |-> L]
  ELSE [ok |-> TRUE, lex |-> [L EXCEPT !.current = @ + 1, !.column = @ + 1]]

\* while (pred(peek(lexer))) advance(lexer);  for a byte class S
RECURSIVE AdvanceWhile(_, _, _)
AdvanceWhile(src, L, S) ==
  IF peek(src, L) \in S THEN AdvanceWhile(src, lexer_advance(src, L), S) ELSE L

RECURSIVE SkipLineComment(_, _)
SkipLineComment(src, L) ==
  IF peek(src, L) # NL /\ ~is_at_end(src, L)
  THEN SkipLineComment(src, lexer_advance(src, L))
  ELSE L

RECURSIVE SkipBlockBody(_, _)
SkipBlockBody(src, L) ==
  IF is_at_end(src, L) THEN L
  ELSE IF peek(src, L) = "*" /\ peek_next(src, L) = "/"
       THEN lexer_advance(src, lexer_advance(src, L))
       ELSE SkipBlockBody(src, lexer_advance(src, L))

\* mutant: a block comment is not skipped
RECURSIVE skip_whitespace_no_block(_, _)
skip_whitespace_no_block(src, L) ==
  IF is_at_end(src, L) THEN L
  ELSE LET c == peek(src, L) IN
       IF c \in {" ", CR, TAB} THEN skip_whitespace_no_block(src, lexer_advance(src, L))
       ELSE IF c = "/" /\ peek_next(src, L) = "/"
            THEN skip_whitespace_no_block(src, SkipLineComment(src, L))
       ELSE L

RECURSIVE skip_whitespace(_, _)
skip_whitespace(src, L) ==
  IF is_at_end(src, L) THEN L
  ELSE LET c == peek(src, L) IN
       IF c \in {" ", CR, TAB} THEN skip_whitespace(src, lexer_advance(src, L))
       ELSE IF c = "/" /\ peek_next(src, L) = "/"
            THEN skip_whitespace(src, SkipLineComment(src, L))
       ELSE IF c = "/" /\ peek_next(src, L) = "*"
            THEN skip_whitespace(src,
                   SkipBlockBody(src, lexer_advance(src, lexer_advance(src, L))))
       ELSE L

make_token(L, type) ==
  [lex |-> L,
   tok |-> Token(type, L.start, L.current - L.start, L.line,
                 L.column - (L.current - L.start), NoValue)]

\* mutant: the error token rewinds the cursor to the start of the lexeme
error_token_rewinds(L, message) ==
  [lex |-> [L EXCEPT !.has_error = TRUE, !.error_message = message, !.current = L.start],
   tok |-> Token("TOKEN_ERROR", L.start, L.current - L.start, L.line, L.column, NoValue)]

error_token(L, message) ==
  [lex |-> [L EXCEPT !.has_error = TRUE, !.error_message = message],
   tok |-> Token("TOKEN_ERROR", L.start, L.current - L.start, L.line, L.column, NoValue)]

\* the decimal scan of number(): digits, then `.` and digits when a digit
\* follows the `.`
NumberDecimal(src, L) ==
  Bind(AdvanceWhile(src, L, Digit), LAMBDA a :
    IF peek(src, a) = "." /\ isdigit(peek_next(src, a))
    THEN [lex |-> AdvanceWhile(src, lexer_advance(src, a), Digit), is_float |-> TRUE,
          base |-> 10]
    ELSE [lex |-> a, is_float |-> FALSE, base |-> 10])

\* the scientific notation of number(): e or E, an optional sign, digits
NumberExponent(src, r) ==
  IF peek(src, r.lex) \in {"e", "E"}
     /\ (isdigit(peek_next(src, r.lex)) \/ peek_next(src, r.lex) \in {"+", "-"})
  THEN Bind(lexer_advance(src, r.lex), LAMBDA e :
         [lex |-> AdvanceWhile(src,
                    IF peek(src, e) \in {"+", "-"} THEN lexer_advance(src, e) ELSE e, Digit),
          is_float |-> TRUE, base |-> 10])
  ELSE r

\* while (pred(peek(lexer))) advance(lexer) after the two prefix bytes
NumberPrefixed(src, L0, S, base) ==
  [lex |-> AdvanceWhile(src, lexer_advance(src, lexer_advance(src, L0)), S),
   is_float |-> FALSE, base |-> base]

\* the scan of number(): the lexer after the literal, is_float and base
NumberScan(src, L0) ==
  IF peek(src, L0) = "0" /\ ~is_at_end(src, L0)
  THEN Bind(peek_next(src, L0), LAMBDA next :
         IF next \in {"x", "X"}
         THEN NumberPrefixed(src, L0, {c \in Digit \cup Lower \cup Upper : isxdigit(c)}, 16)
         ELSE IF next \in {"b", "B"} THEN NumberPrefixed(src, L0, {"0", "1"}, 2)
         ELSE IF next \in {"o", "O"}
         THEN NumberPrefixed(src, L0, {"0", "1", "2", "3", "4", "5", "6", "7"}, 8)
         ELSE NumberDecimal(src, L0))
  ELSE NumberExponent(src, NumberDecimal(src, L0))

\* number(): entered after lexer_next_token consumed the first digit, so
\* peek() is the SECOND byte of the literal
number(src, L0) ==
  Bind(NumberScan(src, L0), LAMBDA scan :
    [lex |-> scan.lex,
     tok |-> [make_token(scan.lex, IF scan.is_float THEN "TOKEN_FLOAT" ELSE "TOKEN_INTEGER").tok
                EXCEPT !.value = IF scan.is_float
                                 THEN strtod(src, scan.lex.start)
                                 ELSE strtoll(src, scan.lex.start, scan.base)]])

\* at most n times: if (isxdigit(peek(lexer))) advance(lexer)
RECURSIVE HexDigits(_, _, _)
HexDigits(src, L, n) ==
  IF n > 0 /\ isxdigit(peek(src, L)) THEN HexDigits(src, lexer_advance(src, L), n - 1) ELSE L

\* the escape switch of string(), entered after the backslash was consumed
StringEscape(src, L) ==
  IF is_at_end(src, L) THEN L
  ELSE Bind(lexer_advance(src, L), LAMBDA a :
         IF peek(src, L) = "x" THEN HexDigits(src, a, 2)
         ELSE IF peek(src, L) = "u" THEN HexDigits(src, a, 4)
         ELSE a)

RECURSIVE StringBody(_, _)
StringBody(src, L) ==
  IF peek(src, L) # DQ /\ ~is_at_end(src, L)
  THEN IF peek(src, L) = BSL
       THEN StringBody(src, StringEscape(src, lexer_advance(src, L)))
       ELSE IF peek(src, L) = NL
            THEN StringBody(src, [L EXCEPT !.line = @ + 1, !.column = 1, !.current = @ + 1])
            ELSE StringBody(src, [L EXCEPT !.column = @ + 1, !.current = @ + 1])
  ELSE L

\* mutant: the end of the source closes the string
string_closed_by_end(src, L0) ==
  Bind(StringBody(src, L0), LAMBDA L :
    IF is_at_end(src, L) THEN make_token(L, "TOKEN_STRING")
    ELSE make_token(lexer_advance(src, L), "TOKEN_STRING"))

string(src, L0) ==
  Bind(StringBody(src, L0), LAMBDA L :
    IF is_at_end(src, L) THEN error_token(L, "Unterminated string")
    ELSE make_token(lexer_advance(src, L), "TOKEN_STRING"))

\* mutant: the lengths are not compared (only memcmp over the keyword)
check_keyword_prefix(src, start, length) ==
  Bind({i \in 1..keyword_count :
          /\ Len(keywords[i].keyword) <= length
          /\ keywords[i].keyword = SubSeq(src, start, start + Len(keywords[i].keyword) - 1)},
       LAMBDA hits :
    IF hits = {} THEN "TOKEN_IDENTIFIER"
    ELSE keywords[CHOOSE i \in hits : \A j \in hits : i <= j].token_type)

\* the for loop over lexer->keywords: the first entry whose string has the
\* length of the lexeme and the same bytes (the entries are pairwise distinct)
check_keyword(src, start, length) ==
  Bind({i \in 1..keyword_count : keywords[i].keyword = SubSeq(src, start, start + length - 1)},
       LAMBDA hits :
    IF hits = {} THEN "TOKEN_IDENTIFIER"
    ELSE keywords[CHOOSE i \in hits : \A j \in hits : i <= j].token_type)

identifier(src, L0) ==
  Bind(AdvanceWhile(src, L0, Lower \cup Upper \cup Digit \cup {"_"}), LAMBDA L :
    make_token(L, check_keyword(src, L.start, L.current - L.start)))

\* mutant: the byte after the operator is not looked at
MatchElse_no_match(src, L, c, yes, no) ==
  Bind([ok |-> FALSE, lex |-> L], LAMBDA m : make_token(m.lex, IF m.ok THEN yes ELSE no))

\* make_token(lexer, match(lexer, c) ? yes : no)
MatchElse(src, L, c, yes, no) ==
  Bind(lexer_match(src, L, c), LAMBDA m : make_token(m.lex, IF m.ok THEN yes ELSE no))

\* case '\'' of lexer_next_token, entered after the opening quote was consumed
CharLiteral(src, L0) ==
  Bind(lexer_advance(src, L0), LAMBDA a :
  Bind(lexer_match(src,
                   IF peek(src, a) = BSL THEN lexer_advance(src, lexer_advance(src, a))
                   ELSE IF peek(src, a) # SQ THEN lexer_advance(src, a)
                   ELSE a,
                   SQ), LAMBDA m :
    IF ~m.ok THEN error_token(m.lex, "Unterminated character literal")
    ELSE make_token(m.lex, "TOKEN_CHAR")))

\* the switch (c) of lexer_next_token; L is the state after c was consumed
Punctuation(src, L, c) ==
  LET m1(x) == lexer_match(src, L, x)
      m2(x, y) == lexer_match(src, m1(x).lex, y)
  IN
  CASE c = "(" -> make_token(L, "TOKEN_LPAREN")
    [] c = ")" -> make_token(L, "TOKEN_RPAREN")
    [] c = "{" -> make_token(L, "TOKEN_LBRACE")
    [] c = "}" -> make_token(L, "TOKEN_RBRACE")
    [] c = "[" -> make_token(L, "TOKEN_LBRACKET")
    [] c = "]" -> make_token(L, "TOKEN_RBRACKET")
    [] c = ";" -> make_token(L, "TOKEN_SEMICOLON")
    [] c = "," -> make_token(L, "TOKEN_COMMA")
    [] c = "." -> IF m1(".").ok
                  THEN IF m2(".", ".").ok
                       THEN make_token(m2(".", ".").lex, "TOKEN_ELLIPSIS")
                       ELSE error_token(m1(".").lex, "Invalid token '..'")
                  ELSE make_token(L, "TOKEN_DOT")
    [] c = ":" -> MatchElse(src, L, ":", "TOKEN_SCOPE", "TOKEN_COLON")
    [] c = "?" -> make_token(L, "TOKEN_QUESTION")
    [] c = "~" -> make_token(L, "TOKEN_TILDE")
    [] c = "^" -> MatchElse(src, L, "=", "TOKEN_XOR_ASSIGN", "TOKEN_XOR")
    [] c = "+" -> IF m1("+").ok THEN make_token(m1("+").lex, "TOKEN_INCREMENT")
                  ELSE MatchElse(src, L, "=", "TOKEN_PLUS_ASSIGN", "TOKEN_PLUS")
    [] c = "-" -> IF m1("-").ok THEN make_token(m1("-").lex, "TOKEN_DECREMENT")
                  ELSE IF m1("=").ok THEN make_token(m1("=").lex, "TOKEN_MINUS_ASSIGN")
                  ELSE MatchElse(src, L, ">", "TOKEN_ARROW", "TOKEN_MINUS")
    [] c = "*" -> IF m1("=").ok THEN make_token(m1("=").lex, "TOKEN_MULTIPLY_ASSIGN")
                  ELSE IF m1("*").ok
                  THEN MatchElse(src, m1("*").lex, "=", "TOKEN_POWER_ASSIGN", "TOKEN_POWER")
                  ELSE make_token(L, "TOKEN_MULTIPLY")
    [] c = "/" -> MatchElse(src, L, "=", "TOKEN_DIVIDE_ASSIGN", "TOKEN_DIVIDE")
    [] c = "%" -> MatchElse(src, L, "=", "TOKEN_MODULO_ASSIGN", "TOKEN_MODULO")
    [] c = NL  -> make_token(L, "TOKEN_NEWLINE")
    [] c = DQ  -> string(src, L)
    [] c = SQ  -> CharLiteral(src, L)
    [] c = "!" -> MatchElse(src, L, "=", "TOKEN_NOT_EQUAL", "TOKEN_NOT")
    [] c = "=" -> IF m1("=").ok
                  THEN MatchElse(src, m1("=").lex, "=", "TOKEN_STRICT_EQUAL", "TOKEN_EQUAL")
                  ELSE make_token(L, "TOKEN_ASSIGN")
    [] c = "<" -> IF m1("<").ok
                  THEN MatchElse(src, m1("<").lex, "=", "TOKEN_LSHIFT_ASSIGN", "TOKEN_LSHIFT")
                  ELSE MatchElse(src, L, "=", "TOKEN_LESS_EQUAL", "TOKEN_LESS")
    [] c = ">" -> IF m1(">").ok
                  THEN MatchElse(src, m1(">").lex, "=", "TOKEN_RSHIFT_ASSIGN", "TOKEN_RSHIFT")
                  ELSE MatchElse(src, L, "=", "TOKEN_GREATER_EQUAL", "TOKEN_GREATER")
    [] c = "&" -> IF m1("&").ok THEN make_token(m1("&").lex, "TOKEN_AND")
                  ELSE MatchElse(src, L, "=", "TOKEN_AND_ASSIGN", "TOKEN_BITWISE_AND")
    [] c = "|" -> IF m1("|").ok THEN make_token(m1("|").lex, "TOKEN_OR")
                  ELSE MatchElse(src, L, "=", "TOKEN_OR_ASSIGN", "TOKEN_BITWISE_OR")
    [] c = "#" -> make_token(L, "TOKEN_HASH")
    [] OTHER   -> error_token(L, "Unexpected character")

\* mutant: lexer->start is not moved to the cursor after the white space
lexer_next_token_keeps_start(src, L0) ==
  Bind(skip_whitespace(src, L0), LAMBDA w :
  Bind([w EXCEPT !.tokens_processed = @ + 1], LAMBDA s :
    IF is_at_end(src, s) THEN make_token(s, "TOKEN_EOF")
    ELSE Bind(lexer_advance(src, s), LAMBDA L :
           IF isalpha(src[s.current]) \/ src[s.current] = "_" THEN identifier(src, L)
           ELSE IF isdigit(src[s.current]) THEN number(src, L)
           ELSE Punctuation(src, L, src[s.current]))))

\* Token lexer_next_token(Lexer*): the new lexer state and the token returned
lexer_next_token(src, L0) ==
  Bind(skip_whitespace(src, L0), LAMBDA w :
  Bind([w EXCEPT !.start = w.current, !.tokens_processed = @ + 1], LAMBDA s :
    IF is_at_end(src, s) THEN make_token(s, "TOKEN_EOF")
    ELSE Bind(lexer_advance(src, s), LAMBDA L :
           IF isalpha(src[s.current]) \/ src[s.current] = "_" THEN identifier(src, L)
           ELSE IF isdigit(src[s.current]) THEN number(src, L)
           ELSE Punctuation(src, L, src[s.current]))))

\* mutant: the saved position (line, column) is not restored
lexer_peek_token_keeps_pos(src, L0) ==
  Bind(lexer_next_token(src, L0), LAMBDA r :
    [lex |-> [r.lex EXCEPT !.current = L0.current, !.start = L0.start,
                           !.tokens_processed = L0.tokens_processed,
                           !.has_error = L0.has_error],
     tok |-> r.tok])

\* Token lexer_peek_token(Lexer*): saves current, start, pos, tokens_processed
\* and has_error, calls lexer_next_token, restores the five saved fields;
\* error_message is not among them
lexer_peek_token(src, L0) ==
  Bind(lexer_next_token(src, L0), LAMBDA r :
    [lex |-> [r.lex EXCEPT !.current = L0.current, !.start = L0.start,
                           !.line = L0.line, !.column = L0.column,
                           !.tokens_processed = L0.tokens_processed,
                           !.has_error = L0.has_error],
     tok |-> r.tok])

\* const char* lexer_intern_string(Lexer*, const char*, size_t): ok is FALSE
\* for a NULL result, addr is the offset in the pool of the pointer returned
lexer_intern_string(L, str) ==
  IF Len(str) = 0 THEN [lex |-> L, ok |-> FALSE, addr |-> 0]
  ELSE IF L.string_pool_used + Len(str) + 1 > string_pool_size
  THEN [lex |-> L, ok |-> FALSE, addr |-> 0]
  ELSE [lex |-> [L EXCEPT !.string_pool = SubSeq(@, 1, L.string_pool_used) \o str \o <<NUL>>,
                          !.string_pool_used = @ + Len(str) + 1],
        ok |-> TRUE, addr |-> L.string_pool_used]

(***************************************************************************)
(* Parser (src/parser.c).  The operators below thread one record m through *)
(* the recursive descent:                                                  *)
(*   src, lex        the lexer the parser reads from (parser->lexer)       *)
(*   current, previous, had_error, panic_mode, error_message,              *)
(*   nodes_created   the Parser fields                                     *)
(*   arena_used      parser->arena->used                                   *)
(*   toks            history: every token lexer_next_token returned        *)
(*   reported        history: every parser_error call, with its message    *)
(*                   and the position of parser->current at the call       *)
(*   syncs           history: every synchronize call, with the states its  *)
(*                   loop went through and panic_mode at its return        *)
(*   iters           history: every iteration of the loop of parser_parse, *)
(*                   with the tokens read before and after it              *)
(*   alloc_failed    history: an arena_alloc call returned NULL            *)
(*   crashed         a null pointer was dereferenced (the process traps)   *)
(* AST nodes are values; a child pointer is the child's value and a null   *)
(* pointer is NullNode.                                                    *)
(***************************************************************************)
ARENA_SIZE == 65536

\* sizeof(ASTNode) on an LP64 target
SizeofASTNode == 64

\* sizeof(ASTNode*) * 1000, the statement array of parser_parse
SizeofStatements == 8000

NullNode == [type |-> "NULL"]

NoMessage == <<>>

R(m, node) == [m |-> m, node |-> node]

\* void* arena_alloc(Arena*, size_t): ok is FALSE for a NULL result
arena_alloc(m, size) ==
  IF m.arena_used + size > ARENA_SIZE
  THEN [m |-> [m EXCEPT !.alloc_failed = TRUE], ok |-> FALSE]
  ELSE [m |-> [m EXCEPT !.arena_used = @ + size], ok |-> TRUE]

\* an entry of the history reported: the arguments of a parser_error call
Reported(m, message) ==
  [message |-> message, line |-> m.current.line, column |-> m.current.column]

\* snprintf "Error at line %d, column %d: %s"
parser_error(m, message) ==
  IF m.panic_mode THEN [m EXCEPT !.reported = Append(@, Reported(m, message))]
  ELSE [m EXCEPT !.panic_mode = TRUE, !.had_error = TRUE,
                 !.error_message = <<"Error at line ", m.current.line, ", column ",
                                     m.current.column, ": ", message>>,
                 !.reported = Append(@, Reported(m, message))]

\* parser->current = lexer_next_token(parser->lexer)
ReadToken(m) ==
  Bind(lexer_next_token(m.src, m.lex), LAMBDA r :
    [m EXCEPT !.lex = r.lex, !.current = r.tok, !.toks = Append(@, r.tok)])

\* mutant: advance() reads one token and reports it when it is an ERROR
\* token, without reading the next one
SkipErrorTokens_reads_once(m) ==
  Bind(ReadToken(m), LAMBDA n :
    IF n.current.type = "TOKEN_ERROR" THEN parser_error(n, "Lexical error") ELSE n)

\* the token reads of advance(): a token is read, and while it is an ERROR
\* token it is reported and the next one is read
RECURSIVE SkipErrorTokens(_)
SkipErrorTokens(m) ==
  Bind(ReadToken(m), LAMBDA n :
    IF n.current.type = "TOKEN_ERROR"
    THEN SkipErrorTokens(parser_error(n, "Lexical error"))
    ELSE n)

parser_advance(m) == SkipErrorTokens([m EXCEPT !.previous = m.current])

check(m, type) == m.current.type = type

match(m, type) ==
  IF ~check(m, type) THEN [ok |-> FALSE, m |-> m]
  ELSE [ok |-> TRUE, m |-> parser_advance(m)]

\* match(parser, A) || match(parser, B) || ...
MatchAny(m, types) ==
  IF m.current.type \in types THEN [ok |-> TRUE, m |-> parser_advance(m)]
  ELSE [ok |-> FALSE, m |-> m]

consume(m, type, message) ==
  IF m.current.type = type THEN parser_advance(m) ELSE parser_error(m, message)

SyncKeywords ==
  {"TOKEN_CLASS", "TOKEN_FUNCTION", "TOKEN_VAR", "TOKEN_FOR", "TOKEN_IF",
   "TOKEN_WHILE", "TOKEN_RETURN"}

\* what the loop of synchronize looks at, and the number of tokens read
SyncState(m) ==
  [previous |-> m.previous.type, current |-> m.current.type, read |-> Len(m.toks)]

\* the state after an advance() of synchronize joins the entry of the call
Advanced(a) == [a EXCEPT !.syncs[Len(a.syncs)].states = Append(@, SyncState(a))]

\* mutant: the loop does not stop at a keyword that begins a statement
RECURSIVE SynchronizeLoop_no_keywords(_)
SynchronizeLoop_no_keywords(m) ==
  IF m.current.type # "TOKEN_EOF"
  THEN IF m.previous.type = "TOKEN_SEMICOLON" THEN m
       ELSE Bind(parser_advance(m), LAMBDA a : SynchronizeLoop_no_keywords(Advanced(a)))
  ELSE m

RECURSIVE SynchronizeLoop(_)
SynchronizeLoop(m) ==
  IF m.current.type # "TOKEN_EOF"
  THEN IF m.previous.type = "TOKEN_SEMICOLON" THEN m
       ELSE IF m.current.type \in SyncKeywords THEN m
       ELSE Bind(parser_advance(m), LAMBDA a : SynchronizeLoop(Advanced(a)))
  ELSE m

\* void synchronize(Parser*); the entry of syncs holds the states the loop
\* went through and panic_mode as it is when the call returns
synchronize(m) ==
  Bind(SynchronizeLoop([m EXCEPT !.panic_mode = FALSE,
                                 !.syncs = Append(@, [states |-> <<SyncState(m)>>,
                                                      panic_mode |-> FALSE])]),
       LAMBDA r : [r EXCEPT !.syncs[Len(r.syncs)].panic_mode = r.panic_mode])

\* ast_allocate: the node carries type and pos; the creators add the union
ast_allocate(m, type) ==
  Bind(arena_alloc(m, SizeofASTNode), LAMBDA a :
    IF ~a.ok THEN R(a.m, NullNode)
    ELSE R([a.m EXCEPT !.nodes_created = @ + 1],
           [type |-> type,
            pos |-> [line |-> m.previous.line, column |-> m.previous.column]]))

\* a union member that was never assigned
Unassigned == <<"unassigned">>

ast_create_literal(m, type, token) ==
  Bind(ast_allocate(m, "AST_LITERAL"), LAMBDA a :
    IF a.node = NullNode THEN a
    ELSE IF type = "TOKEN_INTEGER"
         THEN R(a.m, [type |-> "AST_LITERAL", pos |-> a.node.pos, token_type |-> type,
                      value |-> strtoll(m.src, token.start, 10)])
    ELSE IF type = "TOKEN_FLOAT"
         THEN R(a.m, [type |-> "AST_LITERAL", pos |-> a.node.pos, token_type |-> type,
                      value |-> strtod(m.src, token.start)])
    ELSE IF type = "TOKEN_STRING"
         THEN Bind(arena_alloc(a.m, token.length - 2 + 1), LAMBDA str :
                R(str.m, [type |-> "AST_LITERAL", pos |-> a.node.pos, token_type |-> type,
                          value |-> IF str.ok
                                    THEN SubSeq(m.src, token.start + 1,
                                                token.start + token.length - 2)
                                    ELSE Unassigned]))
    ELSE R(a.m, [type |-> "AST_LITERAL", pos |-> a.node.pos, token_type |-> type,
                 value |-> Unassigned]))

ast_create_identifier(m, name) ==
  Bind(ast_allocate(m, "AST_IDENTIFIER"), LAMBDA a :
    IF a.node = NullNode THEN a
    ELSE Bind(arena_alloc(a.m, Len(name) + 1), LAMBDA c :
           R(c.m, [type |-> "AST_IDENTIFIER", pos |-> a.node.pos,
                   name |-> IF c.ok THEN name ELSE Unassigned])))

ast_create_binary(m, left, operator, right) ==
  Bind(ast_allocate(m, "AST_BINARY"), LAMBDA a :
    IF a.node = NullNode THEN a
    ELSE R(a.m, [type |-> "AST_BINARY", pos |-> a.node.pos,
                 left |-> left, operator |-> operator, right |-> right]))

ast_create_unary(m, operator, operand) ==
  Bind(ast_allocate(m, "AST_UNARY"), LAMBDA a :
    IF a.node = NullNode THEN a
    ELSE R(a.m, [type |-> "AST_UNARY", pos |-> a.node.pos,
                 operator |-> operator, operand |-> operand]))

ast_create_return(m, value) ==
  Bind(ast_allocate(m, "AST_RETURN_STMT"), LAMBDA a :
    IF a.node = NullNode THEN a
    ELSE R(a.m, [type |-> "AST_RETURN_STMT", pos |-> a.node.pos, value |-> value]))

ast_create_var_decl(m, type, name, init) ==
  Bind(ast_allocate(m, "AST_VAR_DECLARATION"), LAMBDA a :
    IF a.node = NullNode THEN a
    ELSE Bind(arena_alloc(a.m, Len(name) + 1), LAMBDA c :
           R(c.m, [type |-> "AST_VAR_DECLARATION", pos |-> a.node.pos, var_type |-> type,
                   name |-> IF c.ok THEN name ELSE Unassigned, initializer |-> init])))

\* char name[256]; strncpy(name, parser->previous.start, len); name[len] = 0
NameOfPrevious(m) ==
  LET len == IF m.previous.length >= 256 THEN 255 ELSE m.previous.length IN
  SubSeq(m.src, m.previous.start, m.previous.start + len - 1)

RECURSIVE expression(_), assignment(_), logical_or(_), logical_and(_), equality(_)
RECURSIVE comparison(_), term(_), factor(_), unary(_), primary(_)
RECURSIVE factor_loop(_, _, _), term_loop(_, _, _), comparison_loop(_, _, _)
RECURSIVE equality_loop(_, _, _), logical_and_loop(_, _, _), logical_or_loop(_, _, _)

\* the chain of  if (match(...))  of primary(): a is the parser after the
\* advance of the match that succeeds
primary(m) ==
  Bind(parser_advance(m), LAMBDA a :
    IF m.current.type \in {"TOKEN_TRUE", "TOKEN_FALSE"}
    THEN ast_create_literal(a, "TOKEN_BOOL_KW", a.previous)
    ELSE IF m.current.type \in {"TOKEN_NULL", "TOKEN_INTEGER", "TOKEN_FLOAT", "TOKEN_STRING"}
    THEN ast_create_literal(a, a.previous.type, a.previous)
    ELSE IF check(m, "TOKEN_IDENTIFIER") THEN ast_create_identifier(a, NameOfPrevious(a))
    ELSE IF check(m, "TOKEN_LPAREN")
    THEN Bind(expression(a), LAMBDA e :
           R(consume(e.m, "TOKEN_RPAREN", "Expected ')' after expression"), e.node))
    ELSE R(parser_error(m, "Expected expression"), NullNode))

unary(m) ==
  Bind(MatchAny(m, {"TOKEN_NOT", "TOKEN_MINUS"}), LAMBDA o :
    IF o.ok
    THEN Bind(unary(o.m), LAMBDA right :
           ast_create_unary(right.m, o.m.previous.type, right.node))
    ELSE primary(m))

\* no operator matched yet: the operand being parsed is the first one
NoOperator == "none"

\* factor(): an operand, then the test of the while loop; left and operator
\* are the expression built so far and the operator matched before the operand
factor_loop(m, left, operator) ==
  Bind(unary(m), LAMBDA right :
  Bind(IF operator = NoOperator THEN right
       ELSE ast_create_binary(right.m, left, operator, right.node), LAMBDA expr :
  Bind(MatchAny(expr.m, {"TOKEN_DIVIDE", "TOKEN_MULTIPLY", "TOKEN_MODULO"}), LAMBDA o :
    IF o.ok THEN factor_loop(o.m, expr.node, o.m.previous.type) ELSE expr)))

factor(m) == factor_loop(m, NullNode, NoOperator)

\* mutant: the operands of + and - are parsed by unary(), not factor()
term_loop_unary_operand(m, left, operator) ==
  Bind(unary(m), LAMBDA right :
  Bind(IF operator = NoOperator THEN right
       ELSE ast_create_binary(right.m, left, operator, right.node), LAMBDA expr :
  Bind(MatchAny(expr.m, {"TOKEN_MINUS", "TOKEN_PLUS"}), LAMBDA o :
    IF o.ok THEN term_loop(o.m, expr.node, o.m.previous.type) ELSE expr)))

\* term(): an operand, then the test of the while loop; left and operator
\* are the expression built so far and the operator matched before the operand
term_loop(m, left, operator) ==
  Bind(factor(m), LAMBDA right :
  Bind(IF operator = NoOperator THEN right
       ELSE ast_create_binary(right.m, left, operator, right.node), LAMBDA expr :
  Bind(MatchAny(expr.m, {"TOKEN_MINUS", "TOKEN_PLUS"}), LAMBDA o :
    IF o.ok THEN term_loop(o.m, expr.node, o.m.previous.type) ELSE expr)))

term(m) == term_loop(m, NullNode, NoOperator)

\* comparison(): an operand, then the test of the while loop; left and operator
\* are the expression built so far and the operator matched before the operand
comparison_loop(m, left, operator) ==
  Bind(term(m), LAMBDA right :
  Bind(IF operator = NoOperator THEN right
       ELSE ast_create_binary(right.m, left, operator, right.node), LAMBDA expr :
  Bind(MatchAny(expr.m, {"TOKEN_GREATER", "TOKEN_GREATER_EQUAL", "TOKEN_LESS", "TOKEN_LESS_EQUAL"}), LAMBDA o :
    IF o.ok THEN comparison_loop(o.m, expr.node, o.m.previous.type) ELSE expr)))

comparison(m) == comparison_loop(m, NullNode, NoOperator)

\* equality(): an operand, then the test of the while loop; left and operator
\* are the expression built so far and the operator matched before the operand
equality_loop(m, left, operator) ==
  Bind(comparison(m), LAMBDA right :
  Bind(IF operator = NoOperator THEN right
       ELSE ast_create_binary(right.m, left, operator, right.node), LAMBDA expr :
  Bind(MatchAny(expr.m, {"TOKEN_NOT_EQUAL", "TOKEN_EQUAL"}), LAMBDA o :
    IF o.ok THEN equality_loop(o.m, expr.node, o.m.previous.type) ELSE expr)))

equality(m) == equality_loop(m, NullNode, NoOperator)

\* logical_and(): an operand, then the test of the while loop; left and operator
\* are the expression built so far and the operator matched before the operand
logical_and_loop(m, left, operator) ==
  Bind(equality(m), LAMBDA right :
  Bind(IF operator = NoOperator THEN right
       ELSE ast_create_binary(right.m, left, operator, right.node), LAMBDA expr :
  Bind(MatchAny(expr.m, {"TOKEN_AND"}), LAMBDA o :
    IF o.ok THEN logical_and_loop(o.m, expr.node, o.m.previous.type) ELSE expr)))

logical_and(m) == logical_and_loop(m, NullNode, NoOperator)

\* logical_or(): an operand, then the test of the while loop; left and operator
\* are the expression built so far and the operator matched before the operand
logical_or_loop(m, left, operator) ==
  Bind(logical_and(m), LAMBDA right :
  Bind(IF operator = NoOperator THEN right
       ELSE ast_create_binary(right.m, left, operator, right.node), LAMBDA expr :
  Bind(MatchAny(expr.m, {"TOKEN_OR"}), LAMBDA o :
    IF o.ok THEN logical_or_loop(o.m, expr.node, o.m.previous.type) ELSE expr)))

logical_or(m) == logical_or_loop(m, NullNode, NoOperator)

\* mutant: the Assignment node is created whatever the kind of the target
assignment_any_target(m) ==
  Bind(logical_or(m), LAMBDA e :
  Bind(match(e.m, "TOKEN_ASSIGN"), LAMBDA a :
    IF a.ok
    THEN Bind(assignment(a.m), LAMBDA value :
           IF e.node = NullNode THEN R([value.m EXCEPT !.crashed = TRUE], NullNode)
           ELSE Bind(ast_allocate(value.m, "AST_ASSIGNMENT"), LAMBDA assign :
                  IF assign.node = NullNode
                  THEN R([assign.m EXCEPT !.crashed = TRUE], NullNode)
                  ELSE R(assign.m, [type |-> "AST_ASSIGNMENT", pos |-> assign.node.pos,
                                    left |-> e.node, operator |-> "TOKEN_ASSIGN",
                                    right |-> value.node])))
    ELSE R(a.m, e.node)))

\* expr->type with expr == NULL and assign->data with assign == NULL are null
\* dereferences: the access faults and parser_parse never returns
assignment(m) ==
  Bind(logical_or(m), LAMBDA e :
  Bind(match(e.m, "TOKEN_ASSIGN"), LAMBDA a :
    IF a.ok
    THEN Bind(assignment(a.m), LAMBDA value :
           IF e.node = NullNode THEN R([value.m EXCEPT !.crashed = TRUE], NullNode)
           ELSE IF e.node.type = "AST_IDENTIFIER"
           THEN Bind(ast_allocate(value.m, "AST_ASSIGNMENT"), LAMBDA assign :
                  IF assign.node = NullNode
                  THEN R([assign.m EXCEPT !.crashed = TRUE], NullNode)
                  ELSE R(assign.m, [type |-> "AST_ASSIGNMENT", pos |-> assign.node.pos,
                                    left |-> e.node, operator |-> "TOKEN_ASSIGN",
                                    right |-> value.node]))
           ELSE R(parser_error(value.m, "Invalid assignment target"), e.node))
    ELSE R(a.m, e.node)))

expression(m) == assignment(m)

var_declaration(m0) ==
  Bind(consume(m0, "TOKEN_IDENTIFIER", "Expected variable name"), LAMBDA m1 :
  Bind(match(m1, "TOKEN_ASSIGN"), LAMBDA a :
  Bind(IF a.ok THEN expression(a.m) ELSE R(a.m, NullNode), LAMBDA init :
    ast_create_var_decl(
      consume(init.m, "TOKEN_SEMICOLON", "Expected ';' after variable declaration"),
      m0.previous.type, NameOfPrevious(m1), init.node))))

return_statement(m) ==
  Bind(IF ~check(m, "TOKEN_SEMICOLON") THEN expression(m) ELSE R(m, NullNode), LAMBDA value :
    ast_create_return(consume(value.m, "TOKEN_SEMICOLON", "Expected ';' after return value"),
                      value.node))

\* stmt->data.binary.left = expr with stmt == NULL is a null dereference
expression_statement(m) ==
  Bind(expression(m), LAMBDA expr :
  Bind(ast_allocate(consume(expr.m, "TOKEN_SEMICOLON", "Expected ';' after expression"),
                    "AST_EXPRESSION_STMT"), LAMBDA stmt :
    IF stmt.node = NullNode THEN R([stmt.m EXCEPT !.crashed = TRUE], NullNode)
    ELSE R(stmt.m, [type |-> "AST_EXPRESSION_STMT", pos |-> stmt.node.pos,
                    left |-> expr.node])))

statement(m) ==
  Bind(match(m, "TOKEN_RETURN"), LAMBDA r :
    IF r.ok THEN return_statement(r.m) ELSE expression_statement(m))

declaration(m) ==
  Bind(MatchAny(m, {"TOKEN_INT", "TOKEN_FLOAT_KW", "TOKEN_STRING_KW", "TOKEN_BOOL_KW"}),
       LAMBDA t :
    IF t.ok THEN var_declaration(t.m) ELSE statement(m))

\* the end of an iteration of the loop of parser_parse that began in m0
Iterated(m0, m1) ==
  [m1 EXCEPT !.iters = Append(@, [before |-> Len(m0.toks), after |-> Len(m1.toks),
                                  had_error |-> m1.had_error])]

\* the while loop of parser_parse; have_array is FALSE when the statement
\* array could not be allocated (storing into it is then a null dereference)
RECURSIVE ParseLoop(_, _, _)
ParseLoop(m, statements, have_array) ==
  IF ~check(m, "TOKEN_EOF") /\ ~m.had_error
  THEN Bind(match(m, "TOKEN_NEWLINE"), LAMBDA n :
         IF n.ok THEN ParseLoop(Iterated(m, n.m), statements, have_array)
         ELSE Bind(declaration(m), LAMBDA decl :
              Bind(IF decl.node # NullNode /\ ~have_array
                   THEN [decl.m EXCEPT !.crashed = TRUE] ELSE decl.m, LAMBDA m1 :
                ParseLoop(Iterated(m, IF m1.panic_mode THEN synchronize(m1) ELSE m1),
                          IF decl.node # NullNode THEN Append(statements, decl.node)
                          ELSE statements,
                          have_array))))
  ELSE R(m, statements)

\* ASTNode* parser_parse(Parser*)
parser_parse(m) ==
  Bind(ast_allocate(m, "AST_PROGRAM"), LAMBDA root :
    IF root.node = NullNode THEN root
    ELSE Bind(arena_alloc(root.m, SizeofStatements), LAMBDA arr :
         Bind(ParseLoop(arr.m, <<>>, arr.ok), LAMBDA loop :
           R(loop.m, [type |-> "AST_PROGRAM", pos |-> root.node.pos,
                      statements |-> loop.node,
                      statement_count |-> Len(loop.node)]))))

\* the token reads of parser_create: a token is read, and while it is a
\* NEWLINE the next one is read
RECURSIVE SkipLeadingNewlines(_)
SkipLeadingNewlines(m) ==
  Bind(ReadToken(m), LAMBDA n :
    IF n.current.type = "TOKEN_NEWLINE" /\ n.current.type # "TOKEN_EOF"
    THEN SkipLeadingNewlines(n)
    ELSE n)

\* Parser* parser_create(Lexer*): previous is not assigned, so it holds
\* whatever the allocation held (garbage)
parser_create(src, L, garbage) ==
  SkipLeadingNewlines(
    [src |-> src, lex |-> L, toks |-> <<>>, current |-> garbage, previous |-> garbage,
     had_error |-> FALSE, panic_mode |-> FALSE, error_message |-> NoMessage,
     nodes_created |-> 0, arena_used |-> 0, reported |-> <<>>, syncs |-> <<>>,
     iters |-> <<>>, alloc_failed |-> FALSE, crashed |-> FALSE])

(***************************************************************************)
(* State machine.  source is the text handed to lexer_create; pc is the    *)
(* caller's position; lexer is the Lexer object; op, tok and peeked are    *)
(* the last lexer call made by the caller and the tokens the calls         *)
(* returned; tokens is the history of the tokens lexer_next_token          *)
(* returned; parser is the Parser object and program the node returned by  *)
(* parser_parse; interned is the history of the lexer_intern_string calls: *)
(* the bytes passed, whether a pointer was returned, and its offset;       *)
(* codegen is the CodeGenerator object and success the value               *)
(* codegen_generate returned; calls is the history of the calls            *)
(* compile_program made on the lexer, the parser and the code generator.   *)
(***************************************************************************)
NoToken == Token("NONE", 0, 0, 0, 0, NoValue)

NoParser == [current |-> NoToken]

ParserFields ==
  {"current", "previous", "had_error", "panic_mode", "error_message",
   "nodes_created", "arena_used", "reported", "syncs", "iters", "alloc_failed"}

ParserOf(m) == [f \in ParserFields |-> m[f]]

\* what an unassigned Token slot of a fresh allocation may hold
GarbageTokens ==
  {Token("TOKEN_INTEGER", 0, 0, 0, 0, NoValue),
   Token("TOKEN_SEMICOLON", 0, 0, 0 - 1, 7, NoValue)}

(***************************************************************************)
(* Code generator (src/codegen.c).  The CodeGenerator object is a record;  *)
(* its field out is the content of the output file, as the sequence of     *)
(* the fprintf calls made on it: the format string, followed by the        *)
(* argument when the format has one.                                       *)
(***************************************************************************)
OutputFormat == {"OUTPUT_C", "OUTPUT_JAVASCRIPT", "OUTPUT_PYTHON", "OUTPUT_BYTECODE"}

\* CodeGenerator* codegen_create(const char*, OutputFormat), the file opened
codegen_create(format) ==
  [format |-> format, indent_level |-> 0, had_error |-> FALSE,
   error_message |-> NoMessage, lines_generated |-> 0, variables_declared |-> 0,
   functions_generated |-> 0, out |-> <<>>]

fprintf(g, call) == [g EXCEPT !.out = Append(@, call)]

emit_indent(g) ==
  [g EXCEPT !.out = @ \o [i \in 1..g.indent_level |-> <<"    ">>]]

emit_line(g, line) ==
  [emit_indent(g) EXCEPT !.out = Append(@, <<"%s\n", line>>), !.lines_generated = @ + 1]

codegen_error(g, message) ==
  [g EXCEPT !.had_error = TRUE, !.error_message = message]

generate_c_literal(g, node) ==
  CASE node.token_type = "TOKEN_INTEGER" -> fprintf(g, <<"%lld", node.value>>)
    [] node.token_type = "TOKEN_FLOAT" -> fprintf(g, <<"%g", node.value>>)
    [] node.token_type = "TOKEN_STRING" -> fprintf(g, <<"\"%s\"", node.value>>)
    [] node.token_type = "TOKEN_TRUE" -> fprintf(g, <<"true">>)
    [] node.token_type = "TOKEN_FALSE" -> fprintf(g, <<"false">>)
    [] node.token_type = "TOKEN_NULL" -> fprintf(g, <<"NULL">>)
    [] OTHER -> codegen_error(g, "Unknown literal type")

generate_c_identifier(g, node) == fprintf(g, <<"%s", node.name>>)

\* the switch on the operator of generate_c_binary
BinaryOperatorText ==
  [TOKEN_PLUS |-> " + ", TOKEN_MINUS |-> " - ", TOKEN_MULTIPLY |-> " * ",
   TOKEN_DIVIDE |-> " / ", TOKEN_MODULO |-> " %% ", TOKEN_EQUAL |-> " == ",
   TOKEN_NOT_EQUAL |-> " != ", TOKEN_LESS |-> " < ", TOKEN_LESS_EQUAL |-> " <= ",
   TOKEN_GREATER |-> " > ", TOKEN_GREATER_EQUAL |-> " >= ", TOKEN_AND |-> " && ",
   TOKEN_OR |-> " || ", TOKEN_ASSIGN |-> " = "]

RECURSIVE generate_c_expression(_, _)
generate_c_binary(g, node) ==
  Bind(generate_c_expression(fprintf(g, <<"(">>), node.left), LAMBDA l :
  Bind(IF node.operator \in DOMAIN BinaryOperatorText
       THEN fprintf(l, <<BinaryOperatorText[node.operator]>>)
       ELSE codegen_error(l, "Unknown binary operator"), LAMBDA o :
    fprintf(generate_c_expression(o, node.right), <<")">>)))

generate_c_expression(g, node) ==
  IF node = NullNode THEN g
  ELSE CASE node.type = "AST_LITERAL" -> generate_c_literal(g, node)
         [] node.type = "AST_IDENTIFIER" -> generate_c_identifier(g, node)
         [] node.type \in {"AST_BINARY", "AST_ASSIGNMENT"} -> generate_c_binary(g, node)
         [] OTHER -> codegen_error(g, "Unknown expression type")

\* the conversion of the declared type to a C type
CTypeText(type) ==
  CASE type = "TOKEN_INT" -> "int "
    [] type = "TOKEN_FLOAT_KW" -> "double "
    [] type = "TOKEN_STRING_KW" -> "char* "
    [] type = "TOKEN_BOOL_KW" -> "bool "
    [] OTHER -> "int "

generate_c_var_declaration(g, node) ==
  Bind(fprintf(fprintf(emit_indent(g), <<CTypeText(node.var_type)>>),
               <<"%s", node.name>>), LAMBDA d :
  Bind(IF node.initializer # NullNode
       THEN generate_c_expression(fprintf(d, <<" = ">>), node.initializer)
       ELSE d, LAMBDA i :
    [fprintf(i, <<";\n">>) EXCEPT !.lines_generated = @ + 1,
                                  !.variables_declared = @ + 1]))

generate_c_statement(g, node) ==
  IF node = NullNode THEN g
  ELSE CASE node.type = "AST_VAR_DECLARATION" -> generate_c_var_declaration(g, node)
         [] node.type = "AST_EXPRESSION_STMT" ->
              [fprintf(generate_c_expression(emit_indent(g), node.left), <<";\n">>)
                 EXCEPT !.lines_generated = @ + 1]
         [] node.type = "AST_RETURN_STMT" ->
              Bind(fprintf(emit_indent(g), <<"return">>), LAMBDA r :
                [fprintf(IF node.value # NullNode
                         THEN generate_c_expression(fprintf(r, <<" ">>), node.value)
                         ELSE r, <<";\n">>)
                   EXCEPT !.lines_generated = @ + 1])
         [] OTHER -> codegen_error(g, "Unknown statement type")

\* the for loop of generate_c_program, from statement i on
RECURSIVE GenerateStatements(_, _, _)
GenerateStatements(g, node, i) ==
  IF i > node.statement_count THEN g
  ELSE GenerateStatements(generate_c_statement(g, node.statements[i]), node, i + 1)

\* the lines generate_c_program writes before the statements
CHeaders ==
  <<"#include <stdio.h>", "#include <stdlib.h>", "#include <stdbool.h>",
    "#include <string.h>", "", "int main() {">>

RECURSIVE EmitLines(_, _)
EmitLines(g, lines) ==
  IF lines = <<>> THEN g ELSE EmitLines(emit_line(g, Head(lines)), Tail(lines))

generate_c_program(g, node) ==
  Bind([EmitLines(g, CHeaders) EXCEPT !.indent_level = @ + 1], LAMBDA h :
  Bind(emit_line(GenerateStatements(h, node, 1), "return 0;"), LAMBDA b :
    emit_line([b EXCEPT !.indent_level = @ - 1], "}")))

\* bool codegen_generate(CodeGenerator*, const ASTNode*): g is the generator
\* after the call and result the value returned
codegen_generate(g, ast) ==
  IF ast = NullNode THEN [g |-> g, result |-> FALSE]
  ELSE IF g.format = "OUTPUT_C"
       THEN Bind(generate_c_program(g, ast), LAMBDA c :
              [g |-> c, result |-> ~c.had_error])
  ELSE IF g.format = "OUTPUT_JAVASCRIPT"
       THEN [g |-> codegen_error(g, "JavaScript output not implemented yet"),
             result |-> FALSE]
  ELSE IF g.format = "OUTPUT_PYTHON"
       THEN [g |-> codegen_error(g, "Python output not implemented yet"),
             result |-> FALSE]
  ELSE [g |-> codegen_error(g, "Bytecode output not implemented yet"),
        result |-> FALSE]

(***************************************************************************)
(* The bytes of the output file.  <stdio.h> fprintf writes the format      *)
(* with each conversion replaced by the text of its argument.              *)
(***************************************************************************)
\* the bytes of the string literals of codegen.c that hold no conversion
LiteralBytes(s) ==
  CASE s = "    " -> <<" ", " ", " ", " ">>
    [] s = "true" -> <<"t", "r", "u", "e">>
    [] s = "false" -> <<"f", "a", "l", "s", "e">>
    [] s = "NULL" -> <<"N", "U", "L", "L">>
    [] s = "(" -> <<"(">>
    [] s = " + " -> <<" ", "+", " ">>
    [] s = " - " -> <<" ", "-", " ">>
    [] s = " * " -> <<" ", "*", " ">>
    [] s = " / " -> <<" ", "/", " ">>
    [] s = " == " -> <<" ", "=", "=", " ">>
    [] s = " != " -> <<" ", "!", "=", " ">>
    [] s = " < " -> <<" ", "<", " ">>
    [] s = " <= " -> <<" ", "<", "=", " ">>
    [] s = " > " -> <<" ", ">", " ">>
    [] s = " >= " -> <<" ", ">", "=", " ">>
    [] s = " && " -> <<" ", "&", "&", " ">>
    [] s = " || " -> <<" ", "|", "|", " ">>
    [] s = " = " -> <<" ", "=", " ">>
    [] s = ")" -> <<")">>
    [] s = "int " -> <<"i", "n", "t", " ">>
    [] s = "double " -> <<"d", "o", "u", "b", "l", "e", " ">>
    [] s = "char* " -> <<"c", "h", "a", "r", "*", " ">>
    [] s = "bool " -> <<"b", "o", "o", "l", " ">>
    [] s = ";\n" -> <<";", NL>>
    [] s = "return" -> <<"r", "e", "t", "u", "r", "n">>
    [] s = " " -> <<" ">>
    [] s = "#include <stdio.h>" -> <<"#", "i", "n", "c", "l", "u", "d", "e", " ", "<", "s", "t", "d", "i", "o", ".", "h", ">">>
    [] s = "#include <stdlib.h>" -> <<"#", "i", "n", "c", "l", "u", "d", "e", " ", "<", "s", "t", "d", "l", "i", "b", ".", "h", ">">>
    [] s = "#include <stdbool.h>" -> <<"#", "i", "n", "c", "l", "u", "d", "e", " ", "<", "s", "t", "d", "b", "o", "o", "l", ".", "h", ">">>
    [] s = "#include <string.h>" -> <<"#", "i", "n", "c", "l", "u", "d", "e", " ", "<", "s", "t", "r", "i", "n", "g", ".", "h", ">">>
    [] s = "" -> <<>>
    [] s = "int main() {" -> <<"i", "n", "t", " ", "m", "a", "i", "n", "(", ")", " ", "{">>
    [] s = "return 0;" -> <<"r", "e", "t", "u", "r", "n", " ", "0", ";">>
    [] s = "}" -> <<"}">>

DigitByte(d) == <<"0", "1", "2", "3", "4", "5", "6", "7", "8", "9">>[d + 1]

\* %lld: the decimal digits of n, after a minus sign when n is negative
RECURSIVE Decimal(_)
Decimal(n) ==
  IF n < 0 THEN <<"-">> \o Decimal(0 - n)
  ELSE IF n < 10 THEN <<DigitByte(n)>>
  ELSE Decimal(n \div 10) \o <<DigitByte(n % 10)>>

RECURSIVE Pow10(_)
Pow10(k) == IF k = 0 THEN 1 ELSE 10 * Pow10(k - 1)

Zeros(k) == [i \in 1..k |-> "0"]

\* the precision of %g
GPrecision == 6

\* the value mant * 10^exp rounded to GPrecision significant digits
RoundG(v) ==
  Bind(Len(Decimal(v.mant)), LAMBDA d :
    IF d <= GPrecision THEN v
    ELSE Normalise((v.mant + 5 * Pow10(d - GPrecision - 1)) \div Pow10(d - GPrecision),
                   v.exp + d - GPrecision))

\* %g of the value mant * 10^exp: X is the decimal exponent of the first
\* digit; the style of %e is used when X < -4 or X >= GPrecision, and
\* trailing zeros are not written
FormatG(value) ==
  IF value.mant = 0 THEN <<"0">>
  ELSE Bind(RoundG(value), LAMBDA v :
       Bind(Decimal(v.mant), LAMBDA ds :
       Bind(v.exp + Len(ds) - 1, LAMBDA X :
         IF X < 0 - 4 \/ X >= GPrecision
         THEN <<Head(ds)>> \o (IF Len(ds) > 1 THEN <<".">> \o Tail(ds) ELSE <<>>)
                \o <<"e", IF X < 0 THEN "-" ELSE "+">>
                \o (IF (IF X < 0 THEN 0 - X ELSE X) < 10 THEN <<"0">> ELSE <<>>)
                \o Decimal(IF X < 0 THEN 0 - X ELSE X)
         ELSE IF v.exp >= 0 THEN ds \o Zeros(v.exp)
         ELSE IF X >= 0
              THEN SubSeq(ds, 1, X + 1) \o <<".">> \o SubSeq(ds, X + 2, Len(ds))
         ELSE <<"0", ".">> \o Zeros(0 - X - 1) \o ds)))

\* the bytes one fprintf call writes
Printed(call) ==
  CASE call[1] = "%lld" -> Decimal(call[2])
    [] call[1] = "%g" -> FormatG(call[2])
    [] call[1] = "%s" -> call[2]
    [] call[1] = "\"%s\"" -> <<DQ>> \o call[2] \o <<DQ>>
    [] call[1] = "%s\n" -> LiteralBytes(call[2]) \o <<NL>>
    [] call[1] = " %% " -> <<" ", "%", " ">>
    [] OTHER -> LiteralBytes(call[1])

\* the content of the output file after a sequence of fprintf calls
RECURSIVE Render(_)
Render(out) == IF out = <<>> THEN <<>> ELSE Printed(Head(out)) \o Render(Tail(out))

\* the CodeGenerator* of a driver that has not created one
NoCodegen == [format |-> "NONE"]

(***************************************************************************)
(* Source texts                                                            *)
(***************************************************************************)
\* int x = 42;
Src_S1 == <<"i", "n", "t", " ", "x", " ", "=", " ", "4", "2", ";">>

\* "unterminated
Src_S4 == <<DQ, "u", "n", "t", "e", "r", "m", "i", "n", "a", "t", "e", "d">>

\* 0xFF + 0b10
Src_S6 == <<"0", "x", "F", "F", " ", "+", " ", "0", "b", "1", "0">>

\* 0x1A 0b1010 0o777
Src_TestNumbers == <<"0", "x", "1", "A", " ", "0", "b", "1", "0", "1", "0", " ", "0", "o", "7", "7", "7">>

\* 10xFF
Src_Hex2 == <<"1", "0", "x", "F", "F">>

\* 0o777
Src_Oct == <<"0", "o", "7", "7", "7">>

\* 0b10
Src_Bin == <<"0", "b", "1", "0">>

\* 0x0
Src_Hex0 == <<"0", "x", "0">>

\* 1 /* c */ 2 // d\n3
Src_Comment == <<"1", " ", "/", "*", " ", "c", " ", "*", "/", " ", "2", " ", "/", "/", " ", "d", NL, "3">>

\* ..
Src_DotDot == <<".", ".">>

\* return 1 + 2 * 3;
Src_S2 == <<"r", "e", "t", "u", "r", "n", " ", "1", " ", "+", " ", "2", " ", "*", " ", "3", ";">>

\* a = b = 1;
Src_S3 == <<"a", " ", "=", " ", "b", " ", "=", " ", "1", ";">>

\* int x 5;\nint y = 7;
Src_S5 == <<"i", "n", "t", " ", "x", " ", "5", ";", NL, "i", "n", "t", " ", "y", " ", "=", " ", "7", ";">>

\* 1 - 2 - 3;
Src_Sub == <<"1", " ", "-", " ", "2", " ", "-", " ", "3", ";">>

\* 1 = 2;
Src_BadTarget == <<"1", " ", "=", " ", "2", ";">>

\* = 1;
Src_NoLeft == <<"=", " ", "1", ";">>

\* + 1;
Src_OpFirst == <<"+", " ", "1", ";">>

\* int x = 1;\nint y = 7;
Src_TwoDecl == <<"i", "n", "t", " ", "x", " ", "=", " ", "1", ";", NL, "i", "n", "t", " ", "y", " ", "=", " ", "7", ";">>

\* 10x1F;
Src_Hex2Stmt == <<"1", "0", "x", "1", "F", ";">>

\* 1 1 @
Src_TwoErrors == <<"1", " ", "1", " ", "@">>

\* int x 5 @;
Src_ErrorInSync == <<"i", "n", "t", " ", "x", " ", "5", " ", "@", ";">>

\* statements of every node kind the parser produces
Src_Negate == <<"-", "1", ";">>

Src_Not == <<"!", "a", ";">>

Src_True == <<"t", "r", "u", "e", ";">>

Src_False == <<"r", "e", "t", "u", "r", "n", " ", "f", "a", "l", "s", "e", ";">>

Src_Null == <<"n", "u", "l", "l", ";">>

Src_Float == <<"f", "l", "o", "a", "t", " ", "y", "=", "1", ".", "5", ";">>

Src_String == <<"s", "t", "r", "i", "n", "g", " ", "s", "=", DQ, "a", DQ, ";">>

Src_Bool == <<"b", "o", "o", "l", " ", "b", ";">>

Src_Return == <<"r", "e", "t", "u", "r", "n", ";">>

Src_ReturnSum == <<"r", "e", "t", "u", "r", "n", " ", "a", "+", "1", ";">>

Src_Group == <<"a", "=", "(", "1", "+", "2", ")", "*", "3", ";">>

CodegenScenarios ==
  {Src_Negate, Src_Not, Src_True, Src_False, Src_Null, Src_Float, Src_String, Src_Bool,
   Src_Return, Src_ReturnSum, Src_Group}

LexScenarios ==
  {Src_S1, Src_S4, Src_S6, Src_TestNumbers, Src_Hex2, Src_Oct, Src_Bin, Src_Hex0, Src_Comment, Src_DotDot}

\* texts whose first token, or first token after a newline, is an ERROR token
Src_ErrorFirst == <<"@">>

Src_ErrorAfterNewline == <<NL, "@", "1", ";">>

Src_ErrorThenStatement == <<"@", "1", ";">>

ErrorScenarios == {Src_ErrorFirst, Src_ErrorAfterNewline, Src_ErrorThenStatement}

ParserScenarios ==
  {Src_S1, Src_S6, Src_S2, Src_S3, Src_S5, Src_Sub, Src_BadTarget, Src_NoLeft, Src_OpFirst, Src_TwoDecl, Src_Hex2Stmt,
   Src_TwoErrors, Src_ErrorInSync}

\* bounds of the enumerated sources
MaxSrcLen == 3

MaxWords == 4

MaxOps == 2

\* number of lexer_next_token calls the caller makes after the call that
\* first reaches the end of the source
MaxCallsPastEnd == 2

LexAlphabet == {"0", "1", "x", DQ, " ", "/", "*", NL}

RECURSIVE SeqsUpTo(_, _)
SeqsUpTo(S, n) ==
  IF n = 0 THEN {<<>>}
  ELSE LET shorter == SeqsUpTo(S, n - 1) IN
       shorter \cup {Append(s, c) : s \in {t \in shorter : Len(t) = n - 1}, c \in S}

RECURSIVE Concat(_)
Concat(ws) == IF ws = <<>> THEN <<>> ELSE Head(ws) \o Concat(Tail(ws))

ParserWords ==
  {<<"1">>, <<"a">>, <<"=">>, <<";">>, <<"+">>, <<"*">>, <<"i", "n", "t", " ">>, <<NL>>}

\* the binary operators of the precedence ladder, by level (2 = lowest)
BinaryOps ==
  << [text |-> <<"|", "|">>, type |-> "TOKEN_OR",            level |-> 2],
     [text |-> <<"&", "&">>, type |-> "TOKEN_AND",           level |-> 3],
     [text |-> <<"=", "=">>, type |-> "TOKEN_EQUAL",         level |-> 4],
     [text |-> <<"!", "=">>, type |-> "TOKEN_NOT_EQUAL",     level |-> 4],
     [text |-> <<"<">>,      type |-> "TOKEN_LESS",          level |-> 5],
     [text |-> <<"<", "=">>, type |-> "TOKEN_LESS_EQUAL",    level |-> 5],
     [text |-> <<">">>,      type |-> "TOKEN_GREATER",       level |-> 5],
     [text |-> <<">", "=">>, type |-> "TOKEN_GREATER_EQUAL", level |-> 5],
     [text |-> <<"+">>,      type |-> "TOKEN_PLUS",          level |-> 6],
     [text |-> <<"-">>,      type |-> "TOKEN_MINUS",         level |-> 6],
     [text |-> <<"*">>,      type |-> "TOKEN_MULTIPLY",      level |-> 7],
     [text |-> <<"/">>,      type |-> "TOKEN_DIVIDE",        level |-> 7],
     [text |-> <<"%">>,      type |-> "TOKEN_MODULO",        level |-> 7] >>

OperandText == <<"1", "2", "3", "4", "5", "6", "7", "8", "9">>

\* the text  1 op[1] 2 op[2] 3 ... ;  for a sequence of indices into BinaryOps
RECURSIVE ExprText(_, _)
ExprText(ops, k) ==
  IF k > Len(ops) THEN <<OperandText[k], ";">>
  ELSE <<OperandText[k]>> \o BinaryOps[ops[k]].text \o ExprText(ops, k + 1)

ExprSources ==
  {ExprText(ops, 1) : ops \in SeqsUpTo(DOMAIN BinaryOps, MaxOps) \ {<<>>}}

\* the operands of the assignment chains
AssignOperands == {<<"a">>, <<"b">>, <<"1">>}

\* the text  o[1]=o[2]=...=o[n];  for a sequence of operands
RECURSIVE AssignText(_)
AssignText(os) ==
  IF Len(os) = 1 THEN Head(os) \o <<";">>
  ELSE Head(os) \o <<"=">> \o AssignText(Tail(os))

AssignSources ==
  {AssignText(os) : os \in SeqsUpTo(AssignOperands, MaxOps + 1) \ {<<>>}}

\* decimal literals in scientific notation: mantissa, e or E, sign, digits
Mantissas ==
  {<<"1">>, <<"0">>, <<"7", "2">>, <<"1", "0">>, <<"1", ".", "5">>, <<"1", "0", ".", "0">>}

ExponentSources ==
  {m \o e \o sign \o d : m \in Mantissas, e \in {<<"e">>, <<"E">>},
                         sign \in {<<>>, <<"+">>, <<"-">>}, d \in {<<"5">>, <<"0", "7">>}}

\* operator bytes, and the forms that start with one of the remaining
\* operator bytes
OperatorAlphabet == {"<", "=", "*", ".", "-", ">", "+", "&", "|", "/"}

OperatorScenarios ==
  {<<"!", "=">>, <<"!", "!">>, <<"%", "=">>, <<"%", "%">>, <<"^", "=">>, <<"^", "^">>,
   <<":", ":">>, <<":", "=">>, <<"?", "?">>, <<"~", "=">>, <<"#", "#">>,
   <<"(", ")", "{", "}", "[", "]", ";", ",">>}

OperatorSources == SeqsUpTo(OperatorAlphabet, MaxSrcLen) \cup OperatorScenarios

\* character literals: quotes, backslashes and one ordinary byte
CharAlphabet == {SQ, BSL, "a"}

CharSources == SeqsUpTo(CharAlphabet, MaxSrcLen + 1)

\* string literals: quotes, backslashes, a newline and one ordinary byte
StringAlphabet == {DQ, BSL, NL, "a"}

StringSources == SeqsUpTo(StringAlphabet, MaxSrcLen + 1)

\* the lexer tests "Keywords" and "Identifiers" of main()
Src_Keywords ==
  <<"i", "n", "t", " ", "f", "l", "o", "a", "t", " ", "s", "t", "r", "i">>
    \o <<"n", "g", " ", "i", "f", " ", "e", "l", "s", "e", " ", "w", "h", "i">>
    \o <<"l", "e", " ", "f", "o", "r", " ", "r", "e", "t", "u", "r", "n", " ">>
    \o <<"f", "u", "n", "c", "t", "i", "o", "n", " ", "v", "a", "r">>

Src_Identifiers ==
  <<"v", "a", "r", "i", "a", "b", "l", "e", " ", "_", "p", "r", "i", "v">>
    \o <<"a", "t", "e", " ", "m", "y", "V", "a", "r", " ", "x", "1", " ", "y">>
    \o <<"2">>

\* the first byte of a keyword in upper case
Capitalised(w) ==
  <<CHOOSE u \in Upper : \E i \in 1..26 :
      /\ <<"a","b","c","d","e","f","g","h","i","j","k","l","m","n","o","p","q","r","s","t","u","v","w","x","y","z">>[i] = w[1]
      /\ <<"A","B","C","D","E","F","G","H","I","J","K","L","M","N","O","P","Q","R","S","T","U","V","W","X","Y","Z">>[i] = u>>
    \o Tail(w)

\* every keyword, alone, with a byte appended or prepended, without its
\* last byte, with its first byte in upper case, and followed by a
\* second word
IdentifierSources ==
  UNION {{keywords[k].keyword,
          keywords[k].keyword \o <<"s">>,
          keywords[k].keyword \o <<"_">>,
          keywords[k].keyword \o <<"1">>,
          <<"_">> \o keywords[k].keyword,
          SubSeq(keywords[k].keyword, 1, Len(keywords[k].keyword) - 1),
          Capitalised(keywords[k].keyword),
          keywords[k].keyword \o <<" ", "x">>} : k \in 1..keyword_count}
    \cup {Src_Keywords, Src_Identifiers, <<"i", "n", "t", "e", "g", "e", "r">>}

LexSources ==
  SeqsUpTo(LexAlphabet, MaxSrcLen) \cup LexScenarios \cup ExponentSources
    \cup OperatorSources \cup CharSources \cup StringSources \cup IdentifierSources

\* texts of white space and comments
BlankAlphabet == {" ", TAB, CR, NL, "/", "*"}

\* /* a
\*  b */ // c
\* (a tab, a carriage return, a space)
Src_Blank ==
  <<"/", "*", " ", "a", NL, " ", "b", " ", "*", "/", " ", "/", "/", " ", "c", NL,
    TAB, CR, " ">>

\* /* int x = 1;   (a block comment that is not terminated)
Src_OpenComment == <<"/", "*", " ", "i", "n", "t", " ", "x", " ", "=", " ", "1", ";">>

\* a terminated block comment, a newline, a block comment left open
Src_TwoComments == <<"/", "*", "*", "/", NL, "/", "*">>

BlankSources ==
  SeqsUpTo(BlankAlphabet, MaxSrcLen + 1) \cup {Src_Blank, Src_OpenComment, Src_TwoComments}

\* what follows the error of  1 1  in the texts that exercise synchronize
SyncWords == {<<"x", " ">>, <<";", " ">>, <<"r", "e", "t", "u", "r", "n", " ">>,
              <<"i", "f", " ">>, <<"@", " ">>, <<NL>>}

SyncSources ==
  {<<"1", " ", "1", " ">> \o Concat(ws) : ws \in SeqsUpTo(SyncWords, MaxWords - 1)}
    \cup {<<"1", " ">> \o Concat(ws) : ws \in SeqsUpTo(SyncWords, MaxWords - 1)}

ParserSources ==
  {Concat(ws) : ws \in SeqsUpTo(ParserWords, MaxWords)} \cup ParserScenarios
    \cup ExprSources \cup AssignSources \cup CodegenScenarios \cup BlankSources
    \cup ErrorScenarios \cup SyncSources

(***************************************************************************)
(* Specification of the lexer under a caller that makes next_token and     *)
(* peek_token calls in any order                                           *)
(***************************************************************************)
InitLexer ==
  /\ source \in LexSources
  /\ pc = "lexing"
  /\ lexer = lexer_create
  /\ op = "create"
  /\ tok = NoToken
  /\ peeked = NoToken
  /\ tokens = <<>>
  /\ parser = NoParser
  /\ program = NullNode
  /\ interned = <<>>
  /\ codegen = NoCodegen
  /\ success = FALSE
  /\ calls = <<>>

NextToken ==
  /\ pc = "lexing"
  /\ lexer.tokens_processed < Len(source) + 1 + MaxCallsPastEnd
  /\ \E r \in {lexer_next_token(source, lexer)} :
       /\ lexer' = r.lex
       /\ tok' = r.tok
       /\ tokens' = Append(tokens, r.tok)
  /\ op' = "next"
  /\ UNCHANGED <<source, pc, peeked, parser, program, interned, codegen, success, calls>>

PeekToken ==
  /\ pc = "lexing"
  /\ \E r \in {lexer_peek_token(source, lexer)} :
       /\ lexer' = r.lex
       /\ peeked' = r.tok
  /\ op' = "peek"
  /\ UNCHANGED <<source, pc, tok, tokens, parser, program, interned, codegen, success, calls>>

NextLexer == NextToken \/ PeekToken

SpecLexer == InitLexer /\ [][NextLexer]_vars

(***************************************************************************)
(* The calls of compile_program (src/main.c).  A call names the function,  *)
(* the objects it uses (the tree lives in the arena of the parser, so a    *)
(* use of the tree is a use of the parser), and ok, which is FALSE for a   *)
(* create function that returned NULL.                                     *)
(***************************************************************************)
Call(fn, uses, ok) == [fn |-> fn, uses |-> uses, ok |-> ok]

LexerCreateFailsCalls == <<Call("lexer_create", {}, FALSE)>>

CreateCalls ==
  <<Call("lexer_create", {}, TRUE), Call("parser_create", {"lexer"}, TRUE)>>

ParserCreateFailsCalls ==
  <<Call("lexer_create", {}, TRUE), Call("parser_create", {"lexer"}, FALSE),
    Call("lexer_destroy", {"lexer"}, TRUE)>>

ParseFailedCalls ==
  <<Call("parser_has_error", {"parser"}, TRUE),
    Call("parser_get_error", {"parser"}, TRUE),
    Call("parser_destroy", {"parser"}, TRUE),
    Call("lexer_destroy", {"lexer"}, TRUE)>>

CodegenCreateFailsCalls ==
  <<Call("parser_has_error", {"parser"}, TRUE),
    Call("parser_get_nodes_created", {"parser"}, TRUE),
    Call("codegen_create", {}, FALSE),
    Call("parser_destroy", {"parser"}, TRUE),
    Call("lexer_destroy", {"lexer"}, TRUE)>>

GenerateCalls ==
  <<Call("parser_has_error", {"parser"}, TRUE),
    Call("parser_get_nodes_created", {"parser"}, TRUE),
    Call("codegen_create", {}, TRUE),
    Call("codegen_generate", {"codegen", "parser"}, TRUE)>>

GenerationFailedCalls ==
  <<Call("codegen_has_error", {"codegen"}, TRUE),
    Call("codegen_get_error", {"codegen"}, TRUE),
    Call("codegen_destroy", {"codegen"}, TRUE),
    Call("parser_destroy", {"parser"}, TRUE),
    Call("lexer_destroy", {"lexer"}, TRUE)>>

\* mutant: the cleanup is made before the tree is dumped
SucceededCalls_cleanup_first ==
  <<Call("codegen_has_error", {"codegen"}, TRUE),
    Call("codegen_get_lines_generated", {"codegen"}, TRUE),
    Call("parser_get_parse_time", {"parser"}, TRUE),
    Call("codegen_get_generation_time", {"codegen"}, TRUE),
    Call("parser_get_nodes_created", {"parser"}, TRUE),
    Call("codegen_get_lines_generated", {"codegen"}, TRUE),
    Call("codegen_destroy", {"codegen"}, TRUE),
    Call("parser_destroy", {"parser"}, TRUE),
    Call("lexer_destroy", {"lexer"}, TRUE),
    Call("ast_print", {"parser"}, TRUE)>>

SucceededCalls ==
  <<Call("codegen_has_error", {"codegen"}, TRUE),
    Call("codegen_get_lines_generated", {"codegen"}, TRUE),
    Call("parser_get_parse_time", {"parser"}, TRUE),
    Call("codegen_get_generation_time", {"codegen"}, TRUE),
    Call("parser_get_nodes_created", {"parser"}, TRUE),
    Call("codegen_get_lines_generated", {"codegen"}, TRUE),
    Call("ast_print", {"parser"}, TRUE),
    Call("codegen_destroy", {"codegen"}, TRUE),
    Call("parser_destroy", {"parser"}, TRUE),
    Call("lexer_destroy", {"lexer"}, TRUE)>>

(***************************************************************************)
(* Specification of the driver (compile_program): lexer_create,            *)
(* parser_create, parser_parse, codegen_create and codegen_generate        *)
(***************************************************************************)
InitParser ==
  /\ source \in ParserSources
  /\ pc = "start"
  /\ lexer = lexer_create
  /\ op = "create"
  /\ tok = NoToken
  /\ peeked = NoToken
  /\ tokens = <<>>
  /\ parser = NoParser
  /\ program = NullNode
  /\ interned = <<>>
  /\ codegen = NoCodegen
  /\ success = FALSE
  /\ calls = <<>>

ParserCreate ==
  /\ pc = "start"
  /\ \E garbage \in GarbageTokens :
       \E m \in {parser_create(source, lexer, garbage)} :
         /\ parser' = ParserOf(m)
         /\ lexer' = m.lex
         /\ tokens' = m.toks
  /\ pc' = "created"
  /\ calls' = CreateCalls
  /\ UNCHANGED <<source, op, tok, peeked, program, interned, codegen, success>>

\* lexer_create or parser_create returns NULL (malloc or arena_create
\* fails, before a token is read) and compile_program returns; with
\* failing = "lexer" the Lexer object was not obtained
CreateFails ==
  /\ pc = "start"
  /\ \E failing \in {"lexer", "parser"} :
       calls' = IF failing = "lexer" THEN LexerCreateFailsCalls ELSE ParserCreateFailsCalls
  /\ pc' = "exited"
  /\ UNCHANGED <<source, lexer, op, tok, peeked, tokens, parser, program, interned,
                 codegen, success>>

\* a faulting parser_parse ends the process: pc becomes "crashed" and no
\* result exists
ParserParse ==
  /\ pc = "created"
  /\ \E r \in {parser_parse([src |-> source, lex |-> lexer, toks |-> tokens,
                              crashed |-> FALSE] @@ parser)} :
       IF r.m.crashed
       THEN /\ pc' = "crashed"
            /\ UNCHANGED <<lexer, tokens, parser, program>>
       ELSE /\ pc' = "parsed"
            /\ parser' = ParserOf(r.m)
            /\ lexer' = r.m.lex
            /\ tokens' = r.m.toks
            /\ program' = r.node
  /\ calls' = Append(calls, Call("parser_parse", {"parser", "lexer"}, TRUE))
  /\ UNCHANGED <<source, op, tok, peeked, interned, codegen, success>>

\* the exit of compile_program after a parse that failed
ParseFailed ==
  /\ pc = "parsed"
  /\ program = NullNode \/ parser.had_error
  /\ pc' = "exited"
  /\ calls' = calls \o ParseFailedCalls
  /\ UNCHANGED <<source, lexer, op, tok, peeked, tokens, parser, program, interned,
                 codegen, success>>

\* the code generation phase of the driver, entered when parser_parse
\* returned a node and the parser has no error; opened is FALSE when fopen
\* fails, and codegen_create then returns NULL
CodegenGenerate ==
  /\ pc = "parsed"
  /\ program # NullNode
  /\ ~parser.had_error
  /\ \E opened \in BOOLEAN :
       IF ~opened
       THEN /\ pc' = "no_codegen"
            /\ calls' = calls \o CodegenCreateFailsCalls
            /\ UNCHANGED <<codegen, success>>
       ELSE \E r \in {codegen_generate(codegen_create("OUTPUT_C"), program)} :
              /\ pc' = "generated"
              /\ codegen' = r.g
              /\ success' = r.result
              /\ calls' = calls \o GenerateCalls
  /\ UNCHANGED <<source, lexer, op, tok, peeked, tokens, parser, program, interned>>

\* the exit of compile_program after a generation that failed
GenerationFailed ==
  /\ pc = "generated"
  /\ ~success \/ codegen.had_error
  /\ pc' = "exited"
  /\ calls' = calls \o GenerationFailedCalls
  /\ UNCHANGED <<source, lexer, op, tok, peeked, tokens, parser, program, interned,
                 codegen, success>>

\* the end of compile_program after a generation that succeeded: the
\* statistics, the dump of the tree, the cleanup
CompileSucceeded ==
  /\ pc = "generated"
  /\ ~(~success \/ codegen.had_error)
  /\ pc' = "exited"
  /\ calls' = calls \o SucceededCalls
  /\ UNCHANGED <<source, lexer, op, tok, peeked, tokens, parser, program, interned,
                 codegen, success>>

NextParser ==
  \/ ParserCreate
  \/ CreateFails
  \/ ParserParse
  \/ ParseFailed
  \/ CodegenGenerate
  \/ GenerationFailed
  \/ CompileSucceeded

SpecParser == InitParser /\ [][NextParser]_vars

(***************************************************************************)
(* Specification of a client of parser.h that builds an Identifier node    *)
(* with ast_create_identifier before it calls parser_parse: the node and   *)
(* its name come out of the arena parser_parse allocates from, so the      *)
(* parse starts with less than ARENA_SIZE bytes free.  (A source text      *)
(* alone exhausts the arena from about 450 statements on.)                 *)
(***************************************************************************)
\* bytes the arena has left for the statements, beyond the Program node and
\* the statement array
MaxFree == 260

\* the free bytes of the arena when parser_parse is called
FreeBytes ==
  {0, SizeofASTNode - 1, SizeofASTNode, SizeofASTNode + SizeofStatements - 1}
    \cup {SizeofASTNode + SizeofStatements + k : k \in 0..MaxFree}

LongName == [i \in 1..ARENA_SIZE |-> "a"]

ArenaSources ==
  {<<>>, <<NL>>, Src_Negate, Src_Not, Src_True, Src_Null, Src_Float, Src_String, Src_Bool,
   Src_Return, Src_ReturnSum, Src_S3, Src_Sub, Src_TwoDecl, Src_OpFirst}

InitArena ==
  /\ source \in ArenaSources
  /\ pc = "start"
  /\ lexer = lexer_create
  /\ op = "create"
  /\ tok = NoToken
  /\ peeked = NoToken
  /\ tokens = <<>>
  /\ parser = NoParser
  /\ program = NullNode
  /\ interned = <<>>
  /\ codegen = NoCodegen
  /\ success = FALSE
  /\ calls = <<>>

\* ast_create_identifier(parser, name) called by the client, once, with a
\* name that leaves free bytes in the arena
AstCreateIdentifier ==
  /\ pc = "created"
  /\ parser.arena_used = 0
  /\ \E free \in FreeBytes :
       \E r \in {ast_create_identifier(
                   [src |-> source, lex |-> lexer, toks |-> tokens, crashed |-> FALSE]
                     @@ parser,
                   SubSeq(LongName, 1, ARENA_SIZE - free - SizeofASTNode - 1))} :
         parser' = ParserOf(r.m)
  /\ UNCHANGED <<source, pc, lexer, op, tok, peeked, tokens, program, interned, codegen,
                 success, calls>>

NextArena ==
  \/ ParserCreate
  \/ AstCreateIdentifier
  \/ ParserParse

SpecArena == InitArena /\ [][NextArena]_vars

(***************************************************************************)
(* Specification of a caller of lexer_intern_string.  The pool of a fresh  *)
(* lexer is empty; the other initial states are those after one long       *)
(* string was interned, which leaves a few free bytes.                     *)
(***************************************************************************)
MaxInternLen == 2

MaxInterns == 3

InternAlphabet == {"a", "b"}

InternCall(str, r) == [bytes |-> str, ok |-> r.ok, addr |-> r.addr]

\* the strings whose interning into the empty pool leaves 0 .. MaxInternLen + 1
\* free bytes
FillStrings ==
  {[i \in 1..(string_pool_size - 1 - free) |-> "a"] : free \in 0..(MaxInternLen + 1)}

InitIntern ==
  /\ source = <<>>
  /\ pc = "interning"
  /\ \/ lexer = lexer_create /\ interned = <<>>
     \/ \E fill \in FillStrings :
          \E r \in {lexer_intern_string(lexer_create, fill)} :
            lexer = r.lex /\ interned = <<InternCall(fill, r)>>
  /\ op = "create"
  /\ tok = NoToken
  /\ peeked = NoToken
  /\ tokens = <<>>
  /\ parser = NoParser
  /\ program = NullNode
  /\ codegen = NoCodegen
  /\ success = FALSE
  /\ calls = <<>>

InternString ==
  /\ pc = "interning"
  /\ Len(interned) < MaxInterns
  /\ \E str \in SeqsUpTo(InternAlphabet, MaxInternLen) :
       \E r \in {lexer_intern_string(lexer, str)} :
         /\ lexer' = r.lex
         /\ interned' = Append(interned, InternCall(str, r))
  /\ op' = "intern"
  /\ UNCHANGED <<source, pc, tok, peeked, tokens, parser, program, codegen, success, calls>>

NextIntern == InternString

SpecIntern == InitIntern /\ [][NextIntern]_vars

(***************************************************************************)
(* Reading the results                                                     *)
(***************************************************************************)
Lit(type, value) == <<"Literal", type, value>>

Ident(name) == <<"Identifier", name>>

Bin(operator, left, right) == <<"Binary", operator, left, right>>

Assign(left, right) == <<"Assignment", left, right>>

\* a node without its positions, as a nested tuple
RECURSIVE Strip(_)
Strip(n) ==
  CASE n.type = "NULL" -> <<"Null">>
    [] n.type = "AST_LITERAL" -> Lit(n.token_type, n.value)
    [] n.type = "AST_IDENTIFIER" -> Ident(n.name)
    [] n.type = "AST_BINARY" -> Bin(n.operator, Strip(n.left), Strip(n.right))
    [] n.type = "AST_ASSIGNMENT" -> Assign(Strip(n.left), Strip(n.right))
    [] n.type = "AST_UNARY" -> <<"Unary", n.operator, Strip(n.operand)>>
    [] n.type = "AST_RETURN_STMT" -> <<"Return", Strip(n.value)>>
    [] n.type = "AST_EXPRESSION_STMT" -> <<"ExpressionStatement", Strip(n.left)>>
    [] n.type = "AST_VAR_DECLARATION" ->
         <<"VarDeclaration", n.var_type, n.name, Strip(n.initializer)>>
    [] n.type = "AST_PROGRAM" ->
         <<"Program", [i \in 1..Len(n.statements) |-> Strip(n.statements[i])]>>

\* the children of a node
Children(n) ==
  CASE n.type \in {"AST_BINARY", "AST_ASSIGNMENT"} -> <<n.left, n.right>>
    [] n.type = "AST_UNARY" -> <<n.operand>>
    [] n.type = "AST_RETURN_STMT" -> <<n.value>>
    [] n.type = "AST_EXPRESSION_STMT" -> <<n.left>>
    [] n.type = "AST_VAR_DECLARATION" -> <<n.initializer>>
    [] n.type = "AST_PROGRAM" -> n.statements
    [] OTHER -> <<>>

\* the set of the nodes of the tree rooted at n
RECURSIVE Nodes(_)
Nodes(n) ==
  IF n.type = "NULL" THEN {}
  ELSE {n} \cup UNION {Nodes(Children(n)[i]) : i \in 1..Len(Children(n))}

Parsed == pc = "parsed"

\* the types of the tokens the lexer handed to the parser
TokenTypes == [i \in 1..Len(tokens) |-> tokens[i].type]

(***************************************************************************)
(* C1.  For every source text parser_parse runs to completion and returns  *)
(* a non-null node of kind Program, also when a statement starts with a    *)
(* token that cannot begin an expression.                                  *)
(***************************************************************************)
C1_ParseReturnsProgram ==
  /\ pc # "crashed"
  /\ Parsed => program.type = "AST_PROGRAM"

(***************************************************************************)
(* C2.  Every lexer_next_token call made before the end of the source      *)
(* consumes at least one byte, a call returns EOF only with the cursor at  *)
(* the end, a call made at the end returns EOF and moves nothing, so EOF   *)
(* is returned after at most Len(source)+1 calls, and every call after an  *)
(* EOF returns EOF again.                                                  *)
(***************************************************************************)
IsNextTokenStep == Len(tokens') = Len(tokens) + 1

C2_NextTokenReachesEOF ==
  [][IsNextTokenStep =>
       /\ lexer.current <= Len(source) => lexer'.current > lexer.current
       /\ tok'.type = "TOKEN_EOF" => lexer'.current = Len(source) + 1
       /\ lexer.current > Len(source) =>
            tok'.type = "TOKEN_EOF" /\ lexer'.current = lexer.current
       /\ (tokens # <<>> /\ tokens[Len(tokens)].type = "TOKEN_EOF") => tok'.type = "TOKEN_EOF"
       /\ Len(tokens') > Len(source) => tok'.type = "TOKEN_EOF"]_vars

W_C2 ==
  /\ Len(tokens) >= 3
  /\ tokens[1].type # "TOKEN_EOF"
  /\ tokens[Len(tokens) - 1].type = "TOKEN_EOF"
  /\ tokens[Len(tokens)].type = "TOKEN_EOF"

(***************************************************************************)
(* The first n tokens that lexer_next_token returns from a fresh lexer     *)
(* when no lexer_peek_token call is made.                                  *)
(***************************************************************************)
RECURSIVE RefTokensFrom(_, _, _)
RefTokensFrom(src, L, n) ==
  IF n = 0 THEN <<>>
  ELSE LET r == lexer_next_token(src, L) IN <<r.tok>> \o RefTokensFrom(src, r.lex, n - 1)

RefTokens(src, n) == RefTokensFrom(src, lexer_create, n)

(***************************************************************************)
(* C3.  lexer_peek_token followed by lexer_next_token returns the same     *)
(* token (kind, start, length, position, value) twice, that token is the   *)
(* one lexer_next_token alone would have returned, and the sequence of     *)
(* tokens returned by lexer_next_token is the same whatever peeks are      *)
(* made in between.                                                        *)
(***************************************************************************)
C3_PeekThenNextSameToken ==
  [][/\ IsNextTokenStep =>
          /\ op = "peek" => tok' = peeked
          /\ tokens' = RefTokens(source, Len(tokens'))
     /\ (op' = "peek" /\ ~IsNextTokenStep) =>
          peeked' = RefTokens(source, Len(tokens) + 1)[Len(tokens) + 1]]_vars

W_C3 ==
  /\ op = "next"
  /\ Len(tokens) >= 2
  /\ peeked = tok
  /\ tok.type = "TOKEN_INTEGER"

(***************************************************************************)
(* C4.  lexer_peek_token leaves the complete lexer state unchanged:        *)
(* cursor, token start, line and column, has_error, the latched error      *)
(* message and tokens_processed, also when the peeked token is ERROR.      *)
(***************************************************************************)
C4_PeekLeavesLexerUnchanged ==
  [][op' = "peek" => lexer' = lexer]_vars

(***************************************************************************)
(* C5.  After a parse error in one statement and synchronization,          *)
(* parser_parse goes on to parse the statements that follow, so a parse    *)
(* that returns has consumed the source up to EOF; for the source          *)
(* `int x 5;` newline `int y = 7;` the Program holds the single statement  *)
(* VarDeclaration(INT, y, Literal(INTEGER, 7)) and had_error is true.      *)
(***************************************************************************)
C5_ParseContinuesAfterError ==
  Parsed =>
    /\ parser.current.type = "TOKEN_EOF"
    /\ source = Src_S5 =>
         /\ parser.had_error
         /\ Strip(program) =
              <<"Program",
                << <<"VarDeclaration", "TOKEN_INT", <<"y">>, Lit("TOKEN_INTEGER", 7)>> >> >>

(***************************************************************************)
(* The number of top-level declarations/statements of a parse during which *)
(* parser_error was not called: the loop of parser_parse, counting instead *)
(* of storing.                                                             *)
(***************************************************************************)
RECURSIVE CountCompleted(_, _)
CountCompleted(m, n) ==
  IF ~check(m, "TOKEN_EOF") /\ ~m.had_error
  THEN LET nl == match(m, "TOKEN_NEWLINE") IN
       IF nl.ok THEN CountCompleted(nl.m, n)
       ELSE LET decl == declaration(m)
                clean == Len(decl.m.reported) = Len(m.reported)
                m2 == IF decl.m.panic_mode THEN synchronize(decl.m) ELSE decl.m
            IN  CountCompleted(m2, IF clean THEN n + 1 ELSE n)
  ELSE n

\* the parser as parser_create left it, whichever garbage previous held
CreatedParsers ==
  {parser_create(source, lexer_create, garbage) : garbage \in GarbageTokens}

(***************************************************************************)
(* C6.  The statement_count of the Program returned by parser_parse equals *)
(* the number of top-level declarations/statements parsed without an error *)
(* being reported inside them, and so does the length of statements: a     *)
(* statement in which an error was reported is not appended.               *)
(***************************************************************************)
C6_StatementCountIsCompleted ==
  Parsed =>
    \A m \in CreatedParsers :
      /\ program.statement_count = CountCompleted(m, 0)
      /\ Len(program.statements) = CountCompleted(m, 0)

(***************************************************************************)
(* Reference trees, built from the token stream alone                      *)
(***************************************************************************)
\* the level of a binary operator token, 0 for any other token
OpLevel(type) ==
  LET hits == {i \in DOMAIN BinaryOps : BinaryOps[i].type = type} IN
  IF hits = {} THEN 0 ELSE BinaryOps[CHOOSE i \in hits : TRUE].level

\* the tokens handed to the parser, without the closing `;` and EOF
Body ==
  IF /\ Len(tokens) >= 3
     /\ tokens[Len(tokens)].type = "TOKEN_EOF"
     /\ tokens[Len(tokens) - 1].type = "TOKEN_SEMICOLON"
  THEN SubSeq(tokens, 1, Len(tokens) - 2)
  ELSE <<>>

\* an INTEGER token written with decimal digits only
IsDecimal(t) ==
  /\ t.type = "TOKEN_INTEGER"
  /\ \A j \in t.start..(t.start + t.length - 1) : isdigit(CharAt(source, j))

\* integer operator integer ... operator integer
IsOperatorChain(ts) ==
  /\ Len(ts) % 2 = 1
  /\ \A i \in 1..Len(ts) :
       IF i % 2 = 1 THEN IsDecimal(ts[i]) ELSE OpLevel(ts[i].type) > 0

\* the tree of a chain: split at the rightmost operator of the lowest level
RECURSIVE RefTree(_)
RefTree(ts) ==
  IF Len(ts) = 1 THEN Lit("TOKEN_INTEGER", ts[1].value)
  ELSE LET ops == {i \in 1..Len(ts) : i % 2 = 0}
           low == CHOOSE l \in {OpLevel(ts[i].type) : i \in ops} :
                    \A i \in ops : l <= OpLevel(ts[i].type)
           p == CHOOSE i \in ops :
                  /\ OpLevel(ts[i].type) = low
                  /\ \A j \in ops : OpLevel(ts[j].type) = low => j <= i
       IN  Bin(ts[p].type, RefTree(SubSeq(ts, 1, p - 1)), RefTree(SubSeq(ts, p + 1, Len(ts))))

ExprStmt(e) == <<"ExpressionStatement", e>>

Prog(stmts) == <<"Program", stmts>>

(***************************************************************************)
(* C7.  For every expression  integer op integer ... op integer ;  over    *)
(* the binary operators of levels 2 to 7 the parse succeeds and the tree   *)
(* nests so that a higher level binds tighter and equal levels associate   *)
(* to the left; `return 1 + 2 * 3;` yields Return(Binary(+, 1, M)) with M  *)
(* the Binary of 2 times 3, and `1 - 2 - 3;` yields                        *)
(* Binary(-, Binary(-, 1, 2), 3).                                          *)
(***************************************************************************)
C7_PrecedenceAndLeftAssociativity ==
  Parsed =>
    /\ (Body # <<>> /\ IsOperatorChain(Body)) =>
         /\ ~parser.had_error
         /\ Strip(program) = Prog(<<ExprStmt(RefTree(Body))>>)
    /\ source = Src_S2 =>
         Strip(program) =
           Prog(<< <<"Return",
                     Bin("TOKEN_PLUS", Lit("TOKEN_INTEGER", 1),
                         Bin("TOKEN_MULTIPLY", Lit("TOKEN_INTEGER", 2),
                             Lit("TOKEN_INTEGER", 3)))>> >>)
    /\ source = Src_Sub =>
         Strip(program) =
           Prog(<<ExprStmt(Bin("TOKEN_MINUS",
                               Bin("TOKEN_MINUS", Lit("TOKEN_INTEGER", 1),
                                   Lit("TOKEN_INTEGER", 2)),
                               Lit("TOKEN_INTEGER", 3)))>>)

\* a parsed chain of two operators, the second of a higher level
W_C7 ==
  /\ Parsed
  /\ Len(Body) = 5
  /\ IsOperatorChain(Body)
  /\ OpLevel(Body[2].type) < OpLevel(Body[4].type)
  /\ program.statements[1].left.right.type = "AST_BINARY"

(***************************************************************************)
(* Assignment chains  operand = operand = ... = operand ;                  *)
(***************************************************************************)
IsAssignChain(ts) ==
  /\ Len(ts) % 2 = 1
  /\ \A i \in 1..Len(ts) :
       IF i % 2 = 1 THEN IsDecimal(ts[i]) \/ ts[i].type = "TOKEN_IDENTIFIER"
       ELSE ts[i].type = "TOKEN_ASSIGN"

Operand(t) ==
  IF t.type = "TOKEN_IDENTIFIER"
  THEN Ident(SubSeq(source, t.start, t.start + t.length - 1))
  ELSE Lit("TOKEN_INTEGER", t.value)

\* the tree of a chain: the first `=` is the root when its target is an
\* identifier, and a target of another kind is returned alone
RECURSIVE RefAssign(_)
RefAssign(ts) ==
  IF Len(ts) = 1 THEN Operand(ts[1])
  ELSE IF ts[1].type = "TOKEN_IDENTIFIER"
  THEN Assign(Operand(ts[1]), RefAssign(SubSeq(ts, 3, Len(ts))))
  ELSE Operand(ts[1])

\* the positions of the `=` of a chain whose target is an identifier, and
\* of those whose target is not
GoodTargets(ts) == {i \in 1..Len(ts) : i % 2 = 0 /\ ts[i - 1].type = "TOKEN_IDENTIFIER"}

BadTargets(ts) == {i \in 1..Len(ts) : i % 2 = 0 /\ ts[i - 1].type # "TOKEN_IDENTIFIER"}

MessageText == IF parser.error_message = NoMessage THEN "" ELSE parser.error_message[6]

(***************************************************************************)
(* C8.  In every tree parser_parse returns the target of every Assignment  *)
(* node is an Identifier node; `a = b = 1;` yields Assignment(a,           *)
(* Assignment(b, Literal 1)); in a chain of assignments the tree nests to  *)
(* the right, an `=` whose left side is an operand that is not an          *)
(* identifier makes the parser report "Invalid assignment target" and set  *)
(* had_error, and an Assignment node is created for exactly the `=` whose  *)
(* left side is an identifier.                                             *)
(***************************************************************************)
C8_AssignmentTargetIsIdentifier ==
  Parsed =>
    /\ \A n \in Nodes(program) : n.type = "AST_ASSIGNMENT" => n.left.type = "AST_IDENTIFIER"
    /\ source = Src_S3 =>
         /\ ~parser.had_error
         /\ Strip(program) =
              Prog(<<ExprStmt(Assign(Ident(<<"a">>),
                                     Assign(Ident(<<"b">>), Lit("TOKEN_INTEGER", 1))))>>)
    /\ (Body # <<>> /\ IsAssignChain(Body)) =>
         /\ Strip(program) = Prog(<<ExprStmt(RefAssign(Body))>>)
         /\ parser.had_error = (BadTargets(Body) # {})
         /\ BadTargets(Body) # {} => MessageText = "Invalid assignment target"
         /\ parser.nodes_created =
              2 + (Len(Body) + 1) \div 2 + Cardinality(GoodTargets(Body))

\* a parsed chain with a target that is not an identifier, reported, and an
\* Assignment node for another `=` of the chain
W_C8 ==
  /\ Parsed
  /\ IsAssignChain(Body)
  /\ BadTargets(Body) # {}
  /\ MessageText = "Invalid assignment target"
  /\ \E n \in Nodes(program) : n.type = "AST_ASSIGNMENT"

(***************************************************************************)
(* Prefixed integer literals, read from the source text                    *)
(***************************************************************************)
PrefixBase(c) ==
  CASE c \in {"x", "X"} -> 16
    [] c \in {"b", "B"} -> 2
    [] c \in {"o", "O"} -> 8
    [] OTHER -> 0

IsDigitOf(c, base) == isxdigit(c) /\ DigitVal(c) < base

\* the number of digits of the base from position i on
RECURSIVE CountDigits(_, _, _)
CountDigits(src, i, base) ==
  IF IsDigitOf(CharAt(src, i), base) THEN 1 + CountDigits(src, i + 1, base) ELSE 0

\* the value of the n digits that start at position i
RECURSIVE ValueOfDigits(_, _, _, _)
ValueOfDigits(src, i, n, base) ==
  IF n = 0 THEN 0
  ELSE ValueOfDigits(src, i, n - 1, base) * base + DigitVal(CharAt(src, i + n - 1))

\* the token starts a literal  0x.. / 0b.. / 0o..  with at least one digit
StartsPrefixedLiteral(src, t) ==
  /\ t.type # "TOKEN_EOF"
  /\ CharAt(src, t.start) = "0"
  /\ PrefixBase(CharAt(src, t.start + 1)) # 0
  /\ IsDigitOf(CharAt(src, t.start + 2), PrefixBase(CharAt(src, t.start + 1)))

(***************************************************************************)
(* C9.  A literal that begins with 0x/0X, 0b/0B or 0o/0O followed by       *)
(* digits of that base is returned by lexer_next_token as one INTEGER      *)
(* token that spans the prefix and all the digits and whose value is the   *)
(* value of the digits in base 16, 2 or 8: 0xFF is 255, 0b10 is 2, 0o777   *)
(* is 511 and 0x0 is 0.                                                    *)
(***************************************************************************)
C9_PrefixedLiteralIsOneInteger ==
  \A k \in 1..Len(tokens) :
    LET t == tokens[k]
        base == PrefixBase(CharAt(source, t.start + 1))
        n == CountDigits(source, t.start + 2, base)
    IN  StartsPrefixedLiteral(source, t) =>
          /\ t.type = "TOKEN_INTEGER"
          /\ t.length = 2 + n
          /\ t.value = ValueOfDigits(source, t.start + 2, n, base)

(***************************************************************************)
(* C10.  `0xFF + 0b10` parses to Binary(+, Literal(INTEGER, 255),          *)
(* Literal(INTEGER, 2)), and the value of every INTEGER Literal node of    *)
(* the tree is the value the lexer decoded into the token the node was     *)
(* made from.                                                              *)
(***************************************************************************)
C10_LiteralValueIsTokenValue ==
  Parsed =>
    /\ source = Src_S6 =>
         Strip(program) =
           Prog(<<ExprStmt(Bin("TOKEN_PLUS", Lit("TOKEN_INTEGER", 255),
                               Lit("TOKEN_INTEGER", 2)))>>)
    /\ \A n \in Nodes(program) :
         (n.type = "AST_LITERAL" /\ n.token_type = "TOKEN_INTEGER") =>
           \A k \in 1..Len(tokens) :
             (/\ tokens[k].type = "TOKEN_INTEGER"
              /\ tokens[k].line = n.pos.line
              /\ tokens[k].column = n.pos.column) => n.value = tokens[k].value

\* the end of the decimal mantissa that starts at position i: digits, then
\* `.` and digits when a digit follows the `.`
MantissaEnd(src, i) ==
  LET a == SkipDigits(src, i) IN
  IF CharAt(src, a) = "." /\ isdigit(CharAt(src, a + 1)) THEN SkipDigits(src, a + 2) ELSE a

\* the position after the exponent  (e|E) [+|-] digit+  that starts at
\* position i, and 0 when no exponent starts there
ExponentEnd(src, i) ==
  LET d == IF CharAt(src, i + 1) \in {"+", "-"} THEN i + 2 ELSE i + 1 IN
  IF CharAt(src, i) \in {"e", "E"} /\ isdigit(CharAt(src, d)) THEN SkipDigits(src, d) ELSE 0

\* the token starts a decimal literal that is immediately followed by an
\* exponent
StartsExponentLiteral(src, t) ==
  /\ t.type # "TOKEN_EOF"
  /\ isdigit(CharAt(src, t.start))
  /\ ExponentEnd(src, MantissaEnd(src, t.start)) # 0

(***************************************************************************)
(* C11.  A decimal literal (digits, optionally `.` and digits) that is     *)
(* immediately followed by e or E, an optional sign and at least one digit *)
(* is returned by lexer_next_token as one FLOAT token whose lexeme spans   *)
(* the mantissa and the whole exponent, whatever the digits of the         *)
(* mantissa are (10e5 and 10.0e5 included).                                *)
(***************************************************************************)
C11_ExponentLiteralIsOneFloat ==
  \A k \in 1..Len(tokens) :
    StartsExponentLiteral(source, tokens[k]) =>
      /\ tokens[k].type = "TOKEN_FLOAT"
      /\ tokens[k].start + tokens[k].length
           = ExponentEnd(source, MantissaEnd(source, tokens[k].start))

\* the number of newline bytes among the first n bytes of the source
RECURSIVE NewlinesBefore(_, _)
NewlinesBefore(src, n) ==
  IF n = 0 THEN 0
  ELSE NewlinesBefore(src, n - 1) + (IF src[n] = NL THEN 1 ELSE 0)

\* the index of the last newline byte before position i, 0 when there is none
RECURSIVE LastNewlineBefore(_, _)
LastNewlineBefore(src, i) ==
  IF i <= 1 THEN 0
  ELSE IF src[i - 1] = NL THEN i - 1 ELSE LastNewlineBefore(src, i - 1)

\* the 1-based line and column of the byte at position i
LineOf(src, i) == 1 + NewlinesBefore(src, i - 1)

ColumnOf(src, i) == i - LastNewlineBefore(src, i)

(***************************************************************************)
(* C12.  Every token returned by lexer_next_token (NEWLINE, ERROR, EOF and *)
(* strings that span several lines included) carries line >= 1 and         *)
(* column >= 1, and they are the 1-based line and column of the first byte *)
(* of the token's lexeme.                                                  *)
(***************************************************************************)
C12_TokenPositionIsLexemeStart ==
  \A k \in 1..Len(tokens) :
    /\ tokens[k].line >= 1
    /\ tokens[k].column >= 1
    /\ tokens[k].line = LineOf(source, tokens[k].start)
    /\ tokens[k].column = ColumnOf(source, tokens[k].start)

\* the position of the newline that ends the line comment starting at i, or
\* the end of the source
RECURSIVE LineCommentEnd(_, _)
LineCommentEnd(src, i) ==
  IF i > Len(src) \/ src[i] = NL THEN i ELSE LineCommentEnd(src, i + 1)

\* the position after the first `*/` at or after i, or the end of the source
RECURSIVE BlockCommentEnd(_, _)
BlockCommentEnd(src, i) ==
  IF i > Len(src) THEN i
  ELSE IF src[i] = "*" /\ CharAt(src, i + 1) = "/" THEN i + 2
  ELSE BlockCommentEnd(src, i + 1)

\* the bytes at positions i .. j-1 are white space (space, tab, carriage
\* return) and whole comments, and nothing else
RECURSIVE IsSkipped(_, _, _)
IsSkipped(src, i, j) ==
  IF i >= j THEN i = j
  ELSE IF src[i] \in {" ", TAB, CR} THEN IsSkipped(src, i + 1, j)
  ELSE IF src[i] = "/" /\ CharAt(src, i + 1) = "/"
       THEN IsSkipped(src, LineCommentEnd(src, i), j)
  ELSE IF src[i] = "/" /\ CharAt(src, i + 1) = "*"
       THEN IsSkipped(src, BlockCommentEnd(src, i + 2), j)
  ELSE FALSE

\* the position after the lexeme of the k-th token returned, 1 for k = 0
EndOfToken(k) == IF k = 0 THEN 1 ELSE tokens[k].start + tokens[k].length

(***************************************************************************)
(* C13.  The lexeme spans of the tokens returned by successive             *)
(* lexer_next_token calls do not overlap and are in source order, strictly *)
(* so up to the first EOF token, and the bytes between one span and the    *)
(* next are white space and comments only: the lexemes and the skipped     *)
(* bytes between them are the source, byte for byte.                       *)
(***************************************************************************)
C13_LexemesTileTheSource ==
  \A k \in 1..Len(tokens) :
    /\ tokens[k].start >= EndOfToken(k - 1)
    /\ tokens[k].type # "TOKEN_EOF" => tokens[k].length >= 1
    /\ tokens[k].type = "TOKEN_EOF" => tokens[k].start = Len(source) + 1
    /\ EndOfToken(k) <= Len(source) + 1
    /\ IsSkipped(source, EndOfToken(k - 1), tokens[k].start)

W_C13 ==
  /\ source = Src_Comment
  /\ Len(tokens) = 5
  /\ tokens[2].start = 11
  /\ tokens[3].type = "TOKEN_NEWLINE"
  /\ tokens[5].type = "TOKEN_EOF"

\* the operator and punctuation forms of the switch of lexer_next_token
OperatorForms ==
  {[text |-> <<"(">>, type |-> "TOKEN_LPAREN"], [text |-> <<")">>, type |-> "TOKEN_RPAREN"],
   [text |-> <<"{">>, type |-> "TOKEN_LBRACE"], [text |-> <<"}">>, type |-> "TOKEN_RBRACE"],
   [text |-> <<"[">>, type |-> "TOKEN_LBRACKET"], [text |-> <<"]">>, type |-> "TOKEN_RBRACKET"],
   [text |-> <<";">>, type |-> "TOKEN_SEMICOLON"], [text |-> <<",">>, type |-> "TOKEN_COMMA"],
   [text |-> <<".">>, type |-> "TOKEN_DOT"],
   [text |-> <<".", ".", ".">>, type |-> "TOKEN_ELLIPSIS"],
   [text |-> <<":">>, type |-> "TOKEN_COLON"], [text |-> <<":", ":">>, type |-> "TOKEN_SCOPE"],
   [text |-> <<"?">>, type |-> "TOKEN_QUESTION"], [text |-> <<"~">>, type |-> "TOKEN_TILDE"],
   [text |-> <<"^">>, type |-> "TOKEN_XOR"], [text |-> <<"^", "=">>, type |-> "TOKEN_XOR_ASSIGN"],
   [text |-> <<"+">>, type |-> "TOKEN_PLUS"], [text |-> <<"+", "+">>, type |-> "TOKEN_INCREMENT"],
   [text |-> <<"+", "=">>, type |-> "TOKEN_PLUS_ASSIGN"],
   [text |-> <<"-">>, type |-> "TOKEN_MINUS"], [text |-> <<"-", "-">>, type |-> "TOKEN_DECREMENT"],
   [text |-> <<"-", "=">>, type |-> "TOKEN_MINUS_ASSIGN"],
   [text |-> <<"-", ">">>, type |-> "TOKEN_ARROW"],
   [text |-> <<"*">>, type |-> "TOKEN_MULTIPLY"],
   [text |-> <<"*", "=">>, type |-> "TOKEN_MULTIPLY_ASSIGN"],
   [text |-> <<"*", "*">>, type |-> "TOKEN_POWER"],
   [text |-> <<"*", "*", "=">>, type |-> "TOKEN_POWER_ASSIGN"],
   [text |-> <<"/">>, type |-> "TOKEN_DIVIDE"],
   [text |-> <<"/", "=">>, type |-> "TOKEN_DIVIDE_ASSIGN"],
   [text |-> <<"%">>, type |-> "TOKEN_MODULO"],
   [text |-> <<"%", "=">>, type |-> "TOKEN_MODULO_ASSIGN"],
   [text |-> <<"!">>, type |-> "TOKEN_NOT"], [text |-> <<"!", "=">>, type |-> "TOKEN_NOT_EQUAL"],
   [text |-> <<"=">>, type |-> "TOKEN_ASSIGN"], [text |-> <<"=", "=">>, type |-> "TOKEN_EQUAL"],
   [text |-> <<"=", "=", "=">>, type |-> "TOKEN_STRICT_EQUAL"],
   [text |-> <<"<">>, type |-> "TOKEN_LESS"], [text |-> <<"<", "=">>, type |-> "TOKEN_LESS_EQUAL"],
   [text |-> <<"<", "<">>, type |-> "TOKEN_LSHIFT"],
   [text |-> <<"<", "<", "=">>, type |-> "TOKEN_LSHIFT_ASSIGN"],
   [text |-> <<">">>, type |-> "TOKEN_GREATER"],
   [text |-> <<">", "=">>, type |-> "TOKEN_GREATER_EQUAL"],
   [text |-> <<">", ">">>, type |-> "TOKEN_RSHIFT"],
   [text |-> <<">", ">", "=">>, type |-> "TOKEN_RSHIFT_ASSIGN"],
   [text |-> <<"&">>, type |-> "TOKEN_BITWISE_AND"], [text |-> <<"&", "&">>, type |-> "TOKEN_AND"],
   [text |-> <<"&", "=">>, type |-> "TOKEN_AND_ASSIGN"],
   [text |-> <<"|">>, type |-> "TOKEN_BITWISE_OR"], [text |-> <<"|", "|">>, type |-> "TOKEN_OR"],
   [text |-> <<"|", "=">>, type |-> "TOKEN_OR_ASSIGN"],
   [text |-> <<"#">>, type |-> "TOKEN_HASH"]}

\* the bytes of text are the bytes of the source from position i on
IsPrefixAt(src, i, text) == \A j \in 1..Len(text) : CharAt(src, i + j - 1) = text[j]

FormsAt(src, i) == {f \in OperatorForms : IsPrefixAt(src, i, f.text)}

\* the longest form that is a prefix of the source at position i
LongestFormAt(src, i) ==
  CHOOSE f \in FormsAt(src, i) : \A g \in FormsAt(src, i) : Len(g.text) <= Len(f.text)

(***************************************************************************)
(* C14.  A token whose lexeme starts with an operator or punctuation byte  *)
(* is the longest form of the switch that is a prefix of the source at     *)
(* that position; no token starts with `//` or `/*` (they start comments), *)
(* and `..` not followed by a third `.` is an ERROR token.                 *)
(***************************************************************************)
C14_LongestOperatorMatch ==
  \A k \in 1..Len(tokens) :
    (tokens[k].type # "TOKEN_EOF" /\ FormsAt(source, tokens[k].start) # {}) =>
      IF IsPrefixAt(source, tokens[k].start, <<"/", "/">>)
         \/ IsPrefixAt(source, tokens[k].start, <<"/", "*">>)
      THEN FALSE
      ELSE IF IsPrefixAt(source, tokens[k].start, <<".", ".">>)
              /\ CharAt(source, tokens[k].start + 2) # "."
      THEN tokens[k].type = "TOKEN_ERROR"
      ELSE /\ tokens[k].type = LongestFormAt(source, tokens[k].start).type
           /\ tokens[k].length = Len(LongestFormAt(source, tokens[k].start).text)

W_C14 ==
  /\ source = <<"<", "<", "=">>
  /\ Len(tokens) = 2
  /\ tokens[1].type = "TOKEN_LSHIFT_ASSIGN"
  /\ tokens[2].type = "TOKEN_EOF"

\* the number of bytes between the opening quote at position i and the place
\* of the closing quote: 2 for a backslash and the escaped byte, 1 for one
\* byte that is neither a backslash nor a quote, 0 when neither is there
CharBodyLength(src, i) ==
  IF CharAt(src, i + 1) = BSL /\ i + 2 <= Len(src) THEN 2
  ELSE IF i + 1 <= Len(src) /\ CharAt(src, i + 1) \notin {BSL, SQ} THEN 1
  ELSE 0

(***************************************************************************)
(* C15.  At an opening ' followed by one byte, or by a backslash and one   *)
(* escaped byte (any byte, backslash and ' included): when the closing '   *)
(* follows, lexer_next_token returns one CHAR token whose lexeme is        *)
(* exactly that literal; when it does not follow, the token is ERROR and   *)
(* the error message is "Unterminated character literal".                  *)
(***************************************************************************)
C15_CharLiteralIsOneToken ==
  \A k \in 1..Len(tokens) :
    LET t == tokens[k]
        n == CharBodyLength(source, t.start)
    IN  (t.type # "TOKEN_EOF" /\ source[t.start] = SQ /\ n > 0) =>
          IF CharAt(source, t.start + n + 1) = SQ
          THEN t.type = "TOKEN_CHAR" /\ t.length = n + 2
          ELSE /\ t.type = "TOKEN_ERROR"
               /\ (k = Len(tokens) /\ op = "next") =>
                    lexer.error_message = "Unterminated character literal"

\* the position of the quote that closes a string whose body starts at
\* position i, where a backslash takes the byte after it with it; 0 when
\* the source ends first
RECURSIVE ClosingQuote(_, _)
ClosingQuote(src, i) ==
  IF i > Len(src) THEN 0
  ELSE IF src[i] = DQ THEN i
  ELSE IF src[i] = BSL THEN ClosingQuote(src, i + 2)
  ELSE ClosingQuote(src, i + 1)

(***************************************************************************)
(* C16.  A string literal whose closing quote (an escaped quote is none)   *)
(* does not come before the end of the source is returned as an ERROR      *)
(* token, after which has_error is true and the error message is           *)
(* "Unterminated string"; a string with a closing quote is one STRING      *)
(* token up to that quote; and has_error is true exactly when some         *)
(* lexer_next_token call made so far returned an ERROR token, so it is     *)
(* never reset.                                                            *)
(***************************************************************************)
C16_UnterminatedStringLatchesError ==
  /\ \A k \in 1..Len(tokens) :
       LET t == tokens[k] IN
       (t.type # "TOKEN_EOF" /\ source[t.start] = DQ) =>
         IF ClosingQuote(source, t.start + 1) = 0
         THEN /\ t.type = "TOKEN_ERROR"
              /\ (k = Len(tokens) /\ op = "next") =>
                   lexer.has_error /\ lexer.error_message = "Unterminated string"
         ELSE /\ t.type = "TOKEN_STRING"
              /\ t.start + t.length = ClosingQuote(source, t.start + 1) + 1
  /\ lexer.has_error <=> \E k \in 1..Len(tokens) : tokens[k].type = "TOKEN_ERROR"

W_C16 ==
  /\ source = <<DQ, "a", BSL, DQ>>
  /\ Len(tokens) = 2
  /\ tokens[1].type = "TOKEN_ERROR"
  /\ tokens[2].type = "TOKEN_EOF"
  /\ lexer.has_error
  /\ lexer.error_message = "Unterminated string"

(***************************************************************************)
(* C17.  After parser_parse has returned with had_error true, the error    *)
(* message is the one of the first parser_error call of the parse: its     *)
(* message and the line and column it was reported at.  No error reported  *)
(* later, in panic mode or while synchronizing, overwrites it.             *)
(***************************************************************************)
C17_FirstErrorIsRetained ==
  (Parsed /\ parser.had_error) =>
    /\ parser.reported # <<>>
    /\ parser.error_message =
         <<"Error at line ", parser.reported[1].line, ", column ",
           parser.reported[1].column, ": ", parser.reported[1].message>>

\* the bytes of the pool at offsets addr .. addr + n - 1
PoolBytes(L, addr, n) == SubSeq(L.string_pool, addr + 1, addr + n)

(***************************************************************************)
(* C18.  A lexer_intern_string call returns NULL only when the pool has    *)
(* fewer free bytes than the length of the string plus one, and then it    *)
(* leaves the pool unchanged; otherwise the pointer it returns is to a     *)
(* copy of the bytes followed by a zero byte, in pool bytes that no        *)
(* earlier interned string uses, and every string interned earlier is      *)
(* still at its address with its content.                                  *)
(***************************************************************************)
C18_InternStringFailsOnlyWhenFull ==
  [][op' = "intern" =>
       LET call == interned'[Len(interned')]
           n == Len(call.bytes)
       IN  /\ ~call.ok <=> string_pool_size - lexer.string_pool_used < n + 1
           /\ ~call.ok => lexer' = lexer
           /\ call.ok =>
                /\ PoolBytes(lexer', call.addr, n + 1) = call.bytes \o <<NUL>>
                /\ call.addr + n + 1 <= string_pool_size
                /\ \A k \in 1..Len(interned) :
                     interned[k].ok =>
                       /\ interned[k].addr + Len(interned[k].bytes) + 1 <= call.addr
                       /\ PoolBytes(lexer', interned[k].addr, Len(interned[k].bytes) + 1)
                            = interned[k].bytes \o <<NUL>>]_vars

(***************************************************************************)
(* C19.  For every AST that parser_parse returns with had_error false,     *)
(* code generation for the C target handles every node: codegen_generate   *)
(* returns true and the generator's had_error stays false, whatever node   *)
(* kinds the parser produced (Literal of the kinds INTEGER, FLOAT, STRING, *)
(* BOOL and NULL, Identifier, Binary, Unary, Assignment, VarDeclaration,   *)
(* ExpressionStatement, ReturnStatement).                                  *)
(***************************************************************************)
Generated == pc = "generated"

C19_CodegenHandlesEveryNode ==
  (Generated /\ ~parser.had_error /\ codegen.format = "OUTPUT_C") =>
    /\ success
    /\ ~codegen.had_error

(***************************************************************************)
(* C20.  Every node of the tree parser_parse returns, the root Program     *)
(* node included, carries a valid Position: the position of a token the    *)
(* parser read from the lexer, with line >= 1, and never the content of a  *)
(* token slot that was not assigned.                                       *)
(***************************************************************************)
IsPositionOfReadToken(pos) ==
  \E i \in 1..Len(tokens) : tokens[i].line = pos.line /\ tokens[i].column = pos.column

C20_EveryNodeHasValidPosition ==
  Parsed =>
    \A n \in Nodes(program) :
      /\ n.pos.line >= 1
      /\ IsPositionOfReadToken(n.pos)

(***************************************************************************)
(* C21.  A token whose lexeme is identifier-shaped (a letter or '_'        *)
(* followed by letters, digits and '_') has the kind of the keyword table  *)
(* entry whose string equals the whole lexeme, byte for byte and in        *)
(* length, and the kind IDENTIFIER when there is no such entry: a lexeme   *)
(* that only starts with or contains a keyword is an IDENTIFIER.           *)
(***************************************************************************)
IsIdentifierByte(c) == c \in Lower \cup Upper \cup Digit \cup {"_"}

\* the index after the run of identifier bytes that starts at index i
RECURSIVE IdentifierEnd(_, _)
IdentifierEnd(src, i) ==
  IF i <= Len(src) /\ IsIdentifierByte(src[i]) THEN IdentifierEnd(src, i + 1) ELSE i

KeywordKind(lexeme) ==
  IF \E k \in 1..keyword_count : keywords[k].keyword = lexeme
  THEN keywords[CHOOSE k \in 1..keyword_count : keywords[k].keyword = lexeme].token_type
  ELSE "TOKEN_IDENTIFIER"

StartsIdentifier(src, t) ==
  /\ t.start <= Len(src)
  /\ src[t.start] \in Lower \cup Upper \cup {"_"}

C21_KeywordIsExactMatch ==
  \A i \in 1..Len(tokens) :
    StartsIdentifier(source, tokens[i]) =>
      /\ tokens[i].length = IdentifierEnd(source, tokens[i].start) - tokens[i].start
      /\ tokens[i].type =
           KeywordKind(SubSeq(source, tokens[i].start,
                              tokens[i].start + tokens[i].length - 1))

\* `integer` is one IDENTIFIER, then EOF
W_C21 ==
  /\ source = <<"i", "n", "t", "e", "g", "e", "r">>
  /\ Len(tokens) = 2
  /\ tokens[1].type = "TOKEN_IDENTIFIER"
  /\ tokens[1].length = 7
  /\ tokens[2].type = "TOKEN_EOF"

(***************************************************************************)
(* C22.  Parsing a source without errors, emitting it for the C target and *)
(* parsing the emitted text again gives a second tree that is structurally *)
(* equal to the first (node kinds, operators, names and values; binary     *)
(* expressions may be parenthesized in the emitted text).                  *)
(***************************************************************************)
\* the result of lexer_create, parser_create and parser_parse on the text
Reparsed(text, garbage) ==
  parser_parse(parser_create(text, lexer_create, garbage))

C22_EmitThenParseGivesSameTree ==
  (Generated /\ success) =>
    \A garbage \in GarbageTokens :
      \E r \in {Reparsed(Render(codegen.out), garbage)} :
        /\ ~r.m.crashed
        /\ ~r.m.had_error
        /\ Strip(r.node) = Strip(program)

(***************************************************************************)
(* C23.  For a source that is empty or holds only spaces, tabs, carriage   *)
(* returns and comments (line comments, and block comments whether         *)
(* terminated or not), the first lexer_next_token call returns EOF, and    *)
(* parser_parse returns a Program with zero statements and had_error       *)
(* false; with newlines outside the comments as well, parser_parse still   *)
(* returns zero statements and had_error false.                            *)
(***************************************************************************)
\* the index after the line comment body that starts at index i
RECURSIVE LineEnd(_, _)
LineEnd(src, i) == IF i > Len(src) \/ src[i] = NL THEN i ELSE LineEnd(src, i + 1)

\* the index after the block comment whose body starts at index i
RECURSIVE BlockEnd(_, _)
BlockEnd(src, i) ==
  IF i > Len(src) THEN i
  ELSE IF src[i] = "*" /\ CharAt(src, i + 1) = "/" THEN i + 2
  ELSE BlockEnd(src, i + 1)

\* TRUE when src from index i on is white space and comments, and, with
\* newlines, also newlines outside the comments
RECURSIVE IsBlankFrom(_, _, _)
IsBlankFrom(src, i, newlines) ==
  IF i > Len(src) THEN TRUE
  ELSE IF src[i] \in {" ", TAB, CR} THEN IsBlankFrom(src, i + 1, newlines)
  ELSE IF src[i] = NL THEN newlines /\ IsBlankFrom(src, i + 1, newlines)
  ELSE IF src[i] = "/" /\ CharAt(src, i + 1) = "/"
       THEN IsBlankFrom(src, LineEnd(src, i + 2), newlines)
  ELSE IF src[i] = "/" /\ CharAt(src, i + 1) = "*"
       THEN IsBlankFrom(src, BlockEnd(src, i + 2), newlines)
  ELSE FALSE

C23_BlankSourceIsEmptyProgram ==
  /\ (parser # NoParser /\ IsBlankFrom(source, 1, FALSE)) =>
       /\ Len(tokens) = 1
       /\ tokens[1].type = "TOKEN_EOF"
  /\ (Parsed /\ IsBlankFrom(source, 1, TRUE)) =>
       /\ program.type = "AST_PROGRAM"
       /\ program.statement_count = 0
       /\ program.statements = <<>>
       /\ ~parser.had_error

\* a terminated and an unterminated comment around a newline
W_C23 ==
  /\ source = Src_TwoComments
  /\ Parsed
  /\ program.statement_count = 0
  /\ ~parser.had_error
  /\ TokenTypes = <<"TOKEN_NEWLINE", "TOKEN_EOF">>

(***************************************************************************)
(* C24.  On every exit path of compile_program (lexer creation failure,    *)
(* parser creation failure, parse error, code generator creation failure,  *)
(* generation failure, success) each lexer, parser and code generator      *)
(* that was created is destroyed exactly once, no call uses an object      *)
(* after its destruction, and the tree is printed only before the parser   *)
(* that owns it is destroyed.                                              *)
(***************************************************************************)
Objects == {"lexer", "parser", "codegen"}

CreateOf(o) ==
  CASE o = "lexer" -> "lexer_create" [] o = "parser" -> "parser_create"
    [] o = "codegen" -> "codegen_create"

DestroyOf(o) ==
  CASE o = "lexer" -> "lexer_destroy" [] o = "parser" -> "parser_destroy"
    [] o = "codegen" -> "codegen_destroy"

\* the positions in calls of the creations and of the destructions of o
CreationsOf(o) == {i \in 1..Len(calls) : calls[i].fn = CreateOf(o) /\ calls[i].ok}

DestructionsOf(o) == {i \in 1..Len(calls) : calls[i].fn = DestroyOf(o)}

Exited == pc \in {"exited", "no_codegen"}

C24_EveryObjectDestroyedOnce ==
  /\ \A o \in Objects :
       /\ \A d \in DestructionsOf(o) :
            /\ \E c \in CreationsOf(o) : c < d
            /\ \A j \in 1..Len(calls) : j > d => o \notin calls[j].uses
       /\ Exited => Cardinality(DestructionsOf(o)) = Cardinality(CreationsOf(o))
       /\ Cardinality(CreationsOf(o)) <= 1
  /\ \A i \in 1..Len(calls) :
       calls[i].fn = "ast_print" =>
         /\ CreationsOf("parser") # {}
         /\ \A d \in DestructionsOf("parser") : i < d

\* the success path: three objects created, the tree printed, three destroyed
W_C24 ==
  /\ pc = "exited"
  /\ success
  /\ \A o \in Objects : Cardinality(CreationsOf(o)) = 1 /\ Cardinality(DestructionsOf(o)) = 1
  /\ \E i \in 1..Len(calls) : calls[i].fn = "ast_print"

(***************************************************************************)
(* C25.  Whenever the lexer hands the parser an ERROR token, at            *)
(* parser_create (as the first token or after leading newlines) and on     *)
(* every later advance, the parser skips it and records a parse error      *)
(* (had_error true, a report "Lexical error" per token skipped); the       *)
(* current token of the parser is never an ERROR token once parser_create  *)
(* has returned.                                                           *)
(***************************************************************************)
ErrorTokensRead == {i \in 1..Len(tokens) : tokens[i].type = "TOKEN_ERROR"}

LexicalErrorsReported ==
  {k \in 1..Len(parser.reported) : parser.reported[k].message = "Lexical error"}

C25_ErrorTokensAreSkipped ==
  pc \in {"created", "parsed"} =>
    /\ parser.current.type # "TOKEN_ERROR"
    /\ Cardinality(LexicalErrorsReported) = Cardinality(ErrorTokensRead)
    /\ ErrorTokensRead # {} => parser.had_error

(***************************************************************************)
(* C26.  synchronize consumes tokens only up to the first state in which   *)
(* the previous token is ';', or the current token is one of class,        *)
(* function, var, for, if, while, return, or the current token is EOF: it  *)
(* returns without consuming anything when it is entered in such a state,  *)
(* and it never advances past such a state.  The states are those of the   *)
(* parser between two advances.                                            *)
(***************************************************************************)
IsSyncPoint(st) ==
  \/ st.previous = "TOKEN_SEMICOLON"
  \/ st.current \in {"TOKEN_CLASS", "TOKEN_FUNCTION", "TOKEN_VAR", "TOKEN_FOR",
                     "TOKEN_IF", "TOKEN_WHILE", "TOKEN_RETURN"}
  \/ st.current = "TOKEN_EOF"

C26_SynchronizeStopsAtFirstSyncPoint ==
  Parsed =>
    \A k \in 1..Len(parser.syncs) :
      \E sts \in {parser.syncs[k].states} :
        /\ IsSyncPoint(sts[Len(sts)])
        /\ \A j \in 1..(Len(sts) - 1) :
             /\ ~IsSyncPoint(sts[j])
             /\ sts[j + 1].read > sts[j].read
             /\ sts[j + 1].previous = sts[j].current
        /\ parser.current.type = sts[Len(sts)].current
        /\ Len(tokens) = sts[Len(sts)].read

\* 1 1 x if : entered at the second 1, two tokens consumed, stopped at if
W_C26 ==
  /\ source = <<"1", " ", "1", " ", "x", " ", "i", "f", " ">>
  /\ Parsed
  /\ Len(parser.syncs) = 1
  /\ Len(parser.syncs[1].states) = 3
  /\ parser.syncs[1].states[3].current = "TOKEN_IF"
  /\ parser.current.type = "TOKEN_IF"

(***************************************************************************)
(* C27.  Panic mode is cleared on synchronization: whenever synchronize    *)
(* returns, panic_mode is false, whatever tokens it had to skip.           *)
(***************************************************************************)
C27_PanicModeClearedBySynchronize ==
  Parsed => \A k \in 1..Len(parser.syncs) : ~parser.syncs[k].panic_mode

(***************************************************************************)
(* C28.  When an allocation from the parser's arena fails during           *)
(* parser_parse (a node, a name copy or the statement array), the failure  *)
(* is reported as an error: parser_parse returns without dereferencing     *)
(* the null result, had_error is true afterwards, and while had_error is   *)
(* false the Program holds every statement of the source.                  *)
(***************************************************************************)
\* the parser_parse call made from the current state
ParseOutcome ==
  parser_parse([src |-> source, lex |-> lexer, toks |-> tokens, crashed |-> FALSE]
                 @@ parser)

\* a call that faulted left the parser as it was, so ParseOutcome is the
\* call that faulted
C28_NoFaultOnExhaustion == pc = "crashed" => ~ParseOutcome.m.alloc_failed

C28_ExhaustionSetsHadError == Parsed /\ parser.alloc_failed => parser.had_error

\* the statements are those the same source gives with an empty arena
C28_NoStatementDropped ==
  Parsed /\ ~parser.had_error /\ program # NullNode
    => \A garbage \in GarbageTokens :
         program.statement_count = Reparsed(source, garbage).node.statement_count

C28_ArenaExhaustionIsReported ==
  /\ C28_NoFaultOnExhaustion
  /\ C28_ExhaustionSetsHadError
  /\ C28_NoStatementDropped

(***************************************************************************)
(* C29.  parser_parse terminates on every source: an iteration of its      *)
(* loop reads at least one token or ends with had_error set, and an        *)
(* iteration that ends with had_error set is the last one; every           *)
(* iteration of the loop of synchronize calls advance, which reads at      *)
(* least one token; an ERROR token read by advance is followed by a        *)
(* further read, and the reads come to an end because every token before   *)
(* EOF starts after the one before it, so that a source of n bytes gives   *)
(* at most n tokens before EOF.                                            *)
(***************************************************************************)
\* the number of tokens parser_create read
ReadByCreate == IF parser.iters = <<>> THEN Len(tokens) ELSE parser.iters[1].before

C29_ParseTerminates ==
  Parsed =>
    /\ \A k \in 1..Len(parser.iters) :
         /\ parser.iters[k].after > parser.iters[k].before \/ parser.iters[k].had_error
         /\ parser.iters[k].had_error => k = Len(parser.iters)
    /\ \A k \in 1..Len(parser.syncs) :
         \A j \in 1..(Len(parser.syncs[k].states) - 1) :
           parser.syncs[k].states[j + 1].read > parser.syncs[k].states[j].read
    /\ \A i \in (ReadByCreate + 1)..Len(tokens) :
         tokens[i].type = "TOKEN_ERROR" => i < Len(tokens)
    /\ \A i \in 1..(Len(tokens) - 1) :
         tokens[i].type # "TOKEN_EOF" => tokens[i + 1].start > tokens[i].start
    /\ Cardinality({i \in 1..Len(tokens) : tokens[i].type # "TOKEN_EOF"}) <= Len(source)

\* 1 1 @ ; : the iteration reads 1 and fails at the second 1; synchronize
\* goes through three states, its first advance skipping the ERROR token @,
\* and the iteration, ending with had_error set, is the last one
W_C29 ==
  /\ source = <<"1", " ", "1", " ", "@", " ", ";", " ">>
  /\ Parsed
  /\ TokenTypes = <<"TOKEN_INTEGER", "TOKEN_INTEGER", "TOKEN_ERROR", "TOKEN_SEMICOLON",
                    "TOKEN_EOF">>
  /\ Len(parser.iters) = 1
  /\ parser.iters[1] = [before |-> 1, after |-> 5, had_error |-> TRUE]
  /\ Len(parser.syncs) = 1
  /\ [j \in 1..3 |-> parser.syncs[1].states[j].read] = <<2, 4, 5>>

(***************************************************************************)
(* C30.  The Literal node primary() builds for the keyword true differs    *)
(* from the one it builds for the keyword false: its token_type or its     *)
(* value tells which of the two was written.                               *)
(***************************************************************************)
Src_FalseStatement == <<"f", "a", "l", "s", "e", ";">>

\* the expression of the first statement of a text: statements[0]->data.binary.left
FirstExpression(text, garbage) == Reparsed(text, garbage).node.statements[1].left

C30_TrueAndFalseLiteralsDiffer ==
  Parsed /\ source = Src_True
    => \A garbage \in GarbageTokens :
         program.statements[1].left # FirstExpression(Src_FalseStatement, garbage)

====
